---------------------------- MODULE Spec2Model ----------------------------
(***************************************************************************)
(* Replication and state-reconciliation layer of the distributed           *)
(* whiteboard: RedisWhiteboardService (src/unnamed/part_001, the service   *)
(* starts at line 259 of that file) on top of RedisAdapter                 *)
(* (src/scripts/services/RedisAdapter.js).                                 *)
(*                                                                         *)
(* Every node runs one service over one adapter; all nodes share one Redis *)
(* (lists under two key prefixes, one pub/sub channel).  A handler is an   *)
(* async function: it runs without interruption up to an await on a Redis  *)
(* command, and anything else on that node (a delivered message, another   *)
(* handler) may run before it resumes.  A step of the model is one such    *)
(* uninterrupted stretch; the Redis command the stretch ends with takes    *)
(* effect at the end of the stretch (the stretch touches only node-local   *)
(* state before it, so this loses no interleaving).  Awaits that involve   *)
(* no I/O (a cache hit in loadStoredData, an adapter that is not ready) do *)
(* not give way to messages or new commands and are not step boundaries.   *)
(*                                                                         *)
(* JavaScript arrays are objects: localCache[wid] and a handler's          *)
(* savedBoard may be the same array, and push/splice change it in place.   *)
(* Arrays therefore live in a per-node heap and are held by reference.     *)
(***************************************************************************)
EXTENDS Integers, Sequences, FiniteSets, TLC

VARIABLES
    isConnected,    \* RedisAdapter.isConnected of each node
    localCache,     \* RedisWhiteboardService.localCache: board -> array reference
    heap,           \* the arrays of each node, by reference
    eventHandlers,  \* RedisWhiteboardService.eventHandlers of each node
    hs,             \* the handlers in flight on each node (locals and await position)
    store,          \* the Redis lists, by key
    inbox,          \* messages published on the channel and not yet handled, per node
    ops,            \* number of commands issued so far
    hist,           \* log of the mutations computed so far (history variable)
    last,           \* what the last step did (history variable)
    adapter,        \* RedisAdapter of each node: its two clients and its handlers map
    kv,             \* the Redis string values, by key
    redisFails,     \* Redis commands fail at present (server down or unreachable)
    metrics         \* MetricsService.metrics of each node: its event counters

vars == <<isConnected, localCache, heap, eventHandlers, hs, store, inbox, ops, hist, last,
          adapter, kv, redisFails, metrics>>

-----------------------------------------------------------------------------
(* Values *)

Nodes  == {"n1", "n2"}
Boards == {"b1", "b2"}
Users  == {"u1", "u2"}
Slots  == {1, 2}
Refs   == 1 .. 5
NoRef  == 0

\* an optional value: undefined, or a value
None    == <<>>
Some(x) == <<x>>

\* o[k] in JavaScript: undefined when the object has no such key
Get(o, k) == IF k \in DOMAIN o THEN o[k] ELSE "undefined"

WHITEBOARD_PREFIX == "whiteboard:data:"
UNDO_PREFIX == "whiteboard:undo:"
Key(prefix, wid) == <<prefix, wid>>
Keys == {Key(p, b) : p \in {WHITEBOARD_PREFIX, UNDO_PREFIX}, b \in Boards}

UNDO_LIMIT == 1000

\* process.env.NODE_ID: one distinct id per node
NodeId(n) == n

\* contents as the transport hands them over (JSON-decoded objects)
Draw(tool, wid, u, id) == [t |-> tool, wid |-> wid, username |-> u, drawId |-> id, d |-> <<>>]
SetText(wid, u, tb, txt) == [t |-> "setTextboxText", wid |-> wid, username |-> u, d |-> <<tb, txt>>]
Cmd(tool, wid, u) == [t |-> tool, wid |-> wid, username |-> u]

\* const contentToSave = { ...content }; delete contentToSave["wid"]
StripWid(content) == [k \in DOMAIN content \ {"wid"} |-> content[k]]

IsDrawingTool(tool) ==
    tool \in {"line", "pen", "rect", "circle", "eraser", "addImgBG", "recSelect",
              "eraseRec", "addTextBox", "setTextboxText", "removeTextbox",
              "setTextboxPosition", "setTextboxFontSize", "setTextboxFontColor"}

-----------------------------------------------------------------------------
(* The list computations of the handlers *)

\* savedBoard.filter(item => !(item.t === "setTextboxText" && item.d[0] === content.d[0]))
FilterTextbox(board, content) ==
    SelectSeq(board, LAMBDA item :
        ~(Get(item, "t") = "setTextboxText" /\ item.d[1] = content.d[1]))

\* faulty variant: the action is put in front of the list
DrawComputeUnshift(board, content) ==
    LET kept == IF content.t = "setTextboxText" THEN FilterTextbox(board, content)
                ELSE board
    IN  <<StripWid(content)>> \o kept

\* faulty variant: the content is stored as received, wid included
DrawComputeKeepsWid(board, content) ==
    LET kept == IF content.t = "setTextboxText" THEN FilterTextbox(board, content)
                ELSE board
    IN  Append(kept, content)

\* the list saveDrawingAction leaves in savedBoard
DrawCompute(board, content) ==
    LET kept == IF content.t = "setTextboxText" THEN FilterTextbox(board, content)
                ELSE board
    IN  Append(kept, StripWid(content))

\* index of the last element of seq owned by username, 0 when there is none
RECURSIVE LastOwned(_, _, _)
LastOwned(seq, username, i) ==
    IF i = 0 THEN 0
    ELSE IF Get(seq[i], "username") = username THEN i
    ELSE LastOwned(seq, username, i - 1)

RemoveAt(seq, j) == SubSeq(seq, 1, j - 1) \o SubSeq(seq, j + 1, Len(seq))

\* faulty variant: the inner loop compares the drawId only
RECURSIVE MoveGroupAnyOwner(_, _, _, _, _)
MoveGroupAnyOwner(from, to, j, drawId, username) ==
    IF j = 0 THEN [from |-> from, to |-> to]
    ELSE IF Get(from[j], "drawId") = drawId
         THEN MoveGroupAnyOwner(RemoveAt(from, j), Append(to, from[j]), j - 1, drawId, username)
         ELSE MoveGroupAnyOwner(from, to, j - 1, drawId, username)

\* the inner loop of handleUndo and handleRedo: j runs from the end of `from` down,
\* each element with this drawId and username is pushed on `to` and spliced out
RECURSIVE MoveGroup(_, _, _, _, _)
MoveGroup(from, to, j, drawId, username) ==
    IF j = 0 THEN [from |-> from, to |-> to]
    ELSE IF Get(from[j], "drawId") = drawId /\ Get(from[j], "username") = username
         THEN MoveGroup(RemoveAt(from, j), Append(to, from[j]), j - 1, drawId, username)
         ELSE MoveGroup(from, to, j - 1, drawId, username)

\* faulty variant: only the most recent element of username is moved, not its group
MoveLastGroupSingle(from, to, username) ==
    LET i == LastOwned(from, username, Len(from))
    IN  IF i = 0 THEN [from |-> from, to |-> to]
        ELSE [from |-> RemoveAt(from, i), to |-> Append(to, from[i])]

\* the outer loop: the most recent element of username names the group
MoveLastGroup(from, to, username) ==
    LET i == LastOwned(from, username, Len(from))
    IN  IF i = 0 THEN [from |-> from, to |-> to]
        ELSE MoveGroup(from, to, Len(from), Get(from[i], "drawId"), username)

\* if (undoStack.length > 1000) undoStack.splice(0, undoStack.length - 1000)
TrimStack(stack) ==
    IF Len(stack) > UNDO_LIMIT
    THEN SubSeq(stack, Len(stack) - UNDO_LIMIT + 1, Len(stack))
    ELSE stack

\* faulty variant: the group is spliced out of the list and not pushed on the stack
UndoComputeDropsGroup(board, stack, username) ==
    LET m == MoveLastGroup(board, stack, username)
    IN  [board |-> m.from, stack |-> TrimStack(stack)]

UndoCompute(board, stack, username) ==
    LET m == MoveLastGroup(board, stack, username)
    IN  [board |-> m.from, stack |-> TrimStack(m.to)]

\* faulty variant: redo copies the group to the list and leaves it on the stack
RedoComputeKeepsStack(board, stack, username) ==
    LET m == MoveLastGroup(stack, board, username)
    IN  [board |-> m.to, stack |-> stack]

\* faulty variant: the restored group is put in front of the list
RedoComputePrepends(board, stack, username) ==
    LET m == MoveLastGroup(stack, <<>>, username)
    IN  [board |-> m.to \o board, stack |-> m.from]

\* faulty variant: the restored group is appended in the order it has on the stack
RedoComputeStackOrder(board, stack, username) ==
    LET m == MoveLastGroup(stack, <<>>, username)
    IN  [board |-> board \o [k \in DOMAIN m.to |-> m.to[Len(m.to) + 1 - k]],
         stack |-> m.from]

RedoCompute(board, stack, username) ==
    LET m == MoveLastGroup(stack, board, username)
    IN  [board |-> m.to, stack |-> m.from]

-----------------------------------------------------------------------------
(* The world a step works on: the node's cache and arrays, the handler's   *)
(* locals, and the shared Redis.  pinned: the arrays other handlers hold.  *)

IdleH == [pc |-> "idle", fn |-> "none", content |-> [t |-> "none"],
          savedBoard |-> NoRef, rd |-> <<>>, thrown |-> FALSE, undoStack |-> <<>>,
          items |-> NoRef]

StepMark == [kind |-> "step"]

HeldBy(h) == {h.savedBoard, h.items} \ {NoRef}

World(n, s) ==
    [cache |-> localCache[n], heap |-> heap[n], h |-> hs[n][s],
     pinned |-> UNION {HeldBy(hs[n][t]) : t \in Slots \ {s}},
     store |-> store, inbox |-> inbox, hist |-> hist, last |-> StepMark]

Live(W) == ({W.cache[b] : b \in Boards} \ {NoRef}) \cup HeldBy(W.h) \cup W.pinned

\* a new array: the least reference nothing holds
FreshRef(W) == CHOOSE r \in Refs \ Live(W) : \A q \in Refs \ Live(W) : r <= q

\* this.localCache[wid], as an optional list
CacheVal(W, wid) == IF W.cache[wid] = NoRef THEN None ELSE Some(W.heap[W.cache[wid]])

\* this.localCache[wid] = <a new array holding v>; the handler's savedBoard names it too
CacheNewArray(W, wid, v) ==
    LET r == FreshRef(W)
    IN  [W EXCEPT !.heap[r] = v, !.cache[wid] = r, !.h.savedBoard = r]

Log(W, rec) == [W EXCEPT !.hist = Append(@, rec)]

LogRec(op, n, content, before, after, stackBefore, stackAfter) ==
    [op |-> op, node |-> n, wid |-> Get(content, "wid"), user |-> Get(content, "username"),
     content |-> content, before |-> before, after |-> after,
     stackBefore |-> stackBefore, stackAfter |-> stackAfter]

-----------------------------------------------------------------------------
(* RedisAdapter: the Redis commands and the channel *)

Del(st, key)          == [st EXCEPT ![key] = <<>>]
RPush(st, key, items) == [st EXCEPT ![key] = @ \o items]
LRange(st, key)       == st[key]

\* faulty variant: listGetAll lets the error of a failed lRange through
ListGetAllThrows(st, key) ==
    [thrown |-> redisFails, value |-> IF redisFails THEN <<>> ELSE LRange(st, key)]

\* RedisAdapter.listGetAll of a ready adapter: the list, or [] when the command fails
ListGetAll(st, key) ==
    [thrown |-> FALSE, value |-> IF redisFails THEN <<>> ELSE LRange(st, key)]

\* the effect on Redis of a del or rPush that a ready adapter issues
Effect(st, after) == IF redisFails THEN st ELSE after

\* the nodes whose initialize() subscribed to the channel
Subscribers == {n \in Nodes : isConnected[n]}

\* JSON.stringify then JSON.parse of an event: a key whose value is undefined is
\* dropped, so the receiver reads undefined for it; an array comes back as a new array
JsonEvent(ev) ==
    IF "data" \in DOMAIN ev
    THEN IF ev.data = None THEN [k \in DOMAIN ev \ {"data"} |-> ev[k]]
         ELSE [ev EXCEPT !.data = ev.data[1]]
    ELSE ev

\* message.data at the receiver
MsgData(m) == IF "data" \in DOMAIN m THEN Some(m.data) ELSE None

\* a board id is truthy unless it is the empty string
Truthy(wid) == wid # "" /\ wid # "undefined"

\* RedisAdapter.publish: every subscriber, the publisher included, gets the message
Publish(W, message) ==
    [W EXCEPT !.inbox = [m \in Nodes |-> IF m \in Subscribers
                                         THEN Append(W.inbox[m], JsonEvent(message))
                                         ELSE W.inbox[m]]]

-----------------------------------------------------------------------------
(* RedisWhiteboardService: what each handler does between two awaits *)

Finish(W) == [W EXCEPT !.h = IdleH]

\* an awaited call rejected: no handler of the service catches, the command rejects
Raise(W, n) ==
    [Finish(W) EXCEPT !.last = [kind |-> "raised", node |-> n, fn |-> W.h.fn,
                                content |-> W.h.content]]

\* publishEvent
PublishEvent(W, n, event) ==
    IF ~isConnected[n] THEN W
    ELSE IF redisFails THEN W
    ELSE LET message == [k \in DOMAIN event \cup {"nodeId"} |->
                            IF k = "nodeId" THEN NodeId(n) ELSE event[k]]
         IN  [Publish(W, message) EXCEPT
                 !.last = [kind |-> "publish", node |-> n, msg |-> JsonEvent(message),
                           fn |-> W.h.fn, content |-> W.h.content,
                           list |-> CacheVal(W, Get(event, "wid"))]]

\* the end of handleEventsAndData: publish the update event, then return
PublishUpdate(W, n) ==
    LET content == W.h.content
        wid == Get(content, "wid")
    IN  Finish(PublishEvent(W, n, [type |-> "update", wid |-> wid, tool |-> content.t,
                                   data |-> CacheVal(W, wid), content |-> content]))

\* what follows saveToDB in its caller
AfterSave(W, n) ==
    IF W.h.fn = "handleEventsAndData" THEN PublishUpdate(W, n) ELSE Finish(W)

\* saveToDB, up to the del of listReplace
SaveToDB(W, n) ==
    LET wid == W.h.content.wid
    IN  IF ~isConnected[n] THEN AfterSave(W, n)
        ELSE IF W.cache[wid] = NoRef THEN AfterSave(W, n)
        ELSE IF redisFails
        THEN [W EXCEPT !.h.pc = "db_push", !.h.items = NoRef,
                       !.h.savedBoard = NoRef, !.h.undoStack = <<>>, !.h.rd = <<>>]
        ELSE [W EXCEPT !.h.pc = "db_del", !.h.items = W.cache[wid],
                       !.h.savedBoard = NoRef, !.h.undoStack = <<>>, !.h.rd = <<>>,
                       !.store = Del(W.store, Key(WHITEBOARD_PREFIX, wid))]

\* faulty variant: the caller goes on when the del has returned, without the rPush
SaveToDBAfterDelSkipsPush(W, n) == AfterSave([W EXCEPT !.h.items = NoRef], n)

\* listReplace of saveToDB after the del: items are serialized now, then rPush
SaveToDBAfterDel(W, n) ==
    LET wid == W.h.content.wid
        items == W.heap[W.h.items]
        W1 == [W EXCEPT !.h.items = NoRef]
    IN  IF Len(items) > 0
        THEN [W1 EXCEPT !.h.pc = "db_push",
                        !.store = Effect(W.store, RPush(W.store, Key(WHITEBOARD_PREFIX, wid),
                                                        items))]
        ELSE AfterSave(W1, n)

\* saveUndoStack, up to the del of listReplace
SaveUndoStack(W, n) ==
    LET wid == W.h.content.wid
    IN  IF ~isConnected[n] THEN SaveToDB(W, n)
        ELSE IF redisFails THEN [W EXCEPT !.h.pc = "undo_push"]
        ELSE [W EXCEPT !.h.pc = "undo_del",
                       !.store = Del(W.store, Key(UNDO_PREFIX, wid))]

\* listReplace of saveUndoStack after the del
SaveUndoStackAfterDel(W, n) ==
    LET wid == W.h.content.wid
    IN  IF Len(W.h.undoStack) > 0
        THEN [W EXCEPT !.h.pc = "undo_push",
                       !.store = Effect(W.store, RPush(W.store, Key(UNDO_PREFIX, wid),
                                                       W.h.undoStack))]
        ELSE SaveToDB(W, n)

\* handleUndo and handleRedo from the result of getUndoStack to saveUndoStack:
\* savedBoard is changed in place, undoStack is the handler's own array
UndoRedo(W, n, stack) ==
    LET content == W.h.content
        wid == content.wid
        sb == W.h.savedBoard
        before == W.heap[sb]
        r == IF content.t = "undo" THEN UndoCompute(before, stack, Get(content, "username"))
             ELSE RedoCompute(before, stack, Get(content, "username"))
        W1 == [W EXCEPT !.heap[sb] = r.board, !.cache[wid] = sb, !.h.savedBoard = NoRef,
                        !.h.undoStack = r.stack, !.h.rd = <<>>]
    IN  SaveUndoStack(Log(W1, LogRec(content.t, n, content, before, r.board, stack, r.stack)), n)

\* getUndoStack
GetUndoStack(W, n) ==
    LET wid == W.h.content.wid
    IN  IF isConnected[n]
        THEN LET r == ListGetAll(W.store, Key(UNDO_PREFIX, wid))
             IN  [W EXCEPT !.h.pc = "getundo", !.h.rd = r.value, !.h.thrown = r.thrown]
        ELSE UndoRedo(W, n, <<>>)

\* saveDrawingAction after loadStoredData
SaveDrawingAction(W, n) ==
    LET content == W.h.content
        wid == content.wid
        sb == W.h.savedBoard
        before == W.heap[sb]
        after == DrawCompute(before, content)
        W1 == IF content.t = "setTextboxText"
              THEN CacheNewArray(W, wid, after)
              ELSE [W EXCEPT !.heap[sb] = after, !.cache[wid] = sb]
    IN  SaveToDB(Log(W1, LogRec("draw", n, content, before, after, <<>>, <<>>)), n)

\* the record of a copyStoredData call: the lists it loaded, what Redis held for the
\* two boards when it decided, and the target list it left in the cache
CopyRec(W, n, after) ==
    LET content == W.h.content
    IN  [op |-> "copy", node |-> n, wid |-> content.target, user |-> "undefined",
         content |-> content,
         source |-> W.heap[W.h.items], before |-> W.heap[W.h.savedBoard], after |-> after,
         storeSource |-> W.store[Key(WHITEBOARD_PREFIX, content.source)],
         storeTarget |-> W.store[Key(WHITEBOARD_PREFIX, content.target)]]

\* copyStoredData after both loads: h.items is sourceData, h.savedBoard is targetData
CopyStoredDataAfterLoads(W, n) ==
    LET sourceData == W.heap[W.h.items]
        targetData == W.heap[W.h.savedBoard]
    IN  IF Len(sourceData) = 0 \/ Len(targetData) > 0
        THEN Finish(Log(W, CopyRec(W, n, targetData)))
        ELSE SaveToDB(CacheNewArray(Log(W, CopyRec(W, n, sourceData)),
                                    W.h.content.target, sourceData), n)

\* what the caller of loadStoredData does with the array it returned (h.savedBoard);
\* copyStoredData calls loadStoredData a second time, for the target
RECURSIVE LoadStoredData(_, _)
AfterLoad(W, n) ==
    LET content == W.h.content
    IN  CASE W.h.fn = "loadStoredData" ->
                Finish(Log(W, LogRec("load", n, content, <<>>, W.heap[W.h.savedBoard], <<>>, <<>>)))
          [] W.h.fn = "copyStoredData" /\ W.h.items = NoRef ->
                LoadStoredData([W EXCEPT !.h.items = W.h.savedBoard, !.h.savedBoard = NoRef,
                                           !.h.content.wid = content.target], n)
          [] W.h.fn = "copyStoredData" /\ W.h.items # NoRef ->
                CopyStoredDataAfterLoads(W, n)
          [] W.h.fn = "handleEventsAndData" /\ content.t \in {"undo", "redo"} ->
                GetUndoStack(W, n)
          [] OTHER -> SaveDrawingAction(W, n)

\* faulty variant: an empty cached list is taken for a missing one
LoadStoredDataEmptyIsMissing(W, n) ==
    LET wid == W.h.content.wid
    IN  IF W.cache[wid] # NoRef /\ W.heap[W.cache[wid]] # <<>>
        THEN AfterLoad([W EXCEPT !.h.savedBoard = W.cache[wid]], n)
        ELSE IF isConnected[n]
        THEN LET r == ListGetAll(W.store, Key(WHITEBOARD_PREFIX, wid))
             IN  [W EXCEPT !.h.pc = "load", !.h.rd = r.value, !.h.thrown = r.thrown]
        ELSE AfterLoad(CacheNewArray(W, wid, <<>>), n)

\* loadStoredData up to its await
LoadStoredData(W, n) ==
    LET wid == W.h.content.wid
    IN  IF W.cache[wid] # NoRef
        THEN AfterLoad([W EXCEPT !.h.savedBoard = W.cache[wid]], n)
        ELSE IF isConnected[n]
        THEN LET r == ListGetAll(W.store, Key(WHITEBOARD_PREFIX, wid))
             IN  [W EXCEPT !.h.pc = "load", !.h.rd = r.value, !.h.thrown = r.thrown]
        ELSE AfterLoad(CacheNewArray(W, wid, <<>>), n)

\* faulty variant: the cache is tested again after the await and kept when populated
LoadStoredDataAfterReadKeepsCache(W, n) ==
    LET wid == W.h.content.wid
        data == W.h.rd
        W1 == [W EXCEPT !.h.rd = <<>>]
    IN  IF W.cache[wid] # NoRef
        THEN AfterLoad([W1 EXCEPT !.h.savedBoard = W.cache[wid]], n)
        ELSE AfterLoad(CacheNewArray(W1, wid, data), n)

\* loadStoredData after listGetAll returned data
LoadStoredDataAfterRead(W, n) ==
    LET wid == W.h.content.wid
        data == W.h.rd
        W1 == [W EXCEPT !.h.rd = <<>>]
    IN  IF W.h.thrown THEN Raise(W, n)
        ELSE IF Len(data) > 0
        THEN AfterLoad(CacheNewArray(W1, wid, data), n)
        ELSE AfterLoad(CacheNewArray(W1, wid, <<>>), n)

\* faulty variant: the clear empties the cache of every board
ClearWhiteboardEveryBoard(W, n) ==
    LET content == W.h.content
        wid == Get(content, "wid")
        before == IF W.cache[wid] = NoRef THEN <<>> ELSE W.heap[W.cache[wid]]
        W1 == Log([W EXCEPT !.cache = [b \in Boards |-> NoRef]],
                  LogRec("clear", n, content, before, <<>>, <<>>, <<>>))
    IN  IF isConnected[n]
        THEN [W1 EXCEPT !.h.pc = "clr_del1",
                        !.store = Effect(W.store, Del(W.store, Key(WHITEBOARD_PREFIX, wid)))]
        ELSE PublishUpdate(PublishEvent(W1, n, [type |-> "clear", wid |-> wid]), n)

\* clearWhiteboard up to its first await
ClearWhiteboard(W, n) ==
    LET content == W.h.content
        wid == Get(content, "wid")
        before == IF W.cache[wid] = NoRef THEN <<>> ELSE W.heap[W.cache[wid]]
        W1 == Log([W EXCEPT !.cache[wid] = NoRef],
                  LogRec("clear", n, content, before, <<>>, <<>>, <<>>))
    IN  IF isConnected[n]
        THEN [W1 EXCEPT !.h.pc = "clr_del1",
                        !.store = Effect(W.store, Del(W.store, Key(WHITEBOARD_PREFIX, wid)))]
        ELSE PublishUpdate(PublishEvent(W1, n, [type |-> "clear", wid |-> wid]), n)

\* faulty variant: an update is appended to what the cache holds instead of replacing it
ApplyRemoteEventMerging(W, n, message) ==
    LET wid == Get(message, "wid")
        data == MsgData(message)
        old == IF W.cache[wid] = NoRef THEN <<>> ELSE W.heap[W.cache[wid]]
        W1 == IF message.type = "update" /\ Truthy(wid)
              THEN IF data = None THEN [W EXCEPT !.cache[wid] = NoRef]
                   ELSE [CacheNewArray(W, wid, old \o data[1]) EXCEPT !.h.savedBoard = NoRef]
              ELSE IF message.type = "clear" /\ Truthy(wid)
              THEN [W EXCEPT !.cache[wid] = NoRef]
              ELSE W
    IN  [W |-> W1, calls |-> eventHandlers[n], seen |-> CacheVal(W1, wid)]

\* faulty variant: the handlers are called before the cache is changed
ApplyRemoteEventCallsFirst(W, n, message) ==
    LET wid == Get(message, "wid")
        data == MsgData(message)
        W1 == IF message.type = "update" /\ Truthy(wid)
              THEN IF data = None THEN [W EXCEPT !.cache[wid] = NoRef]
                   ELSE [CacheNewArray(W, wid, data[1]) EXCEPT !.h.savedBoard = NoRef]
              ELSE IF message.type = "clear" /\ Truthy(wid)
              THEN [W EXCEPT !.cache[wid] = NoRef]
              ELSE W
    IN  [W |-> W1, calls |-> eventHandlers[n], seen |-> CacheVal(W, wid)]

\* handleRemoteEvent past the node-id test: the cache change, then every handler; seen
\* is the cache entry of the event's board as the handlers find it
ApplyRemoteEvent(W, n, message) ==
    LET wid == Get(message, "wid")
        data == MsgData(message)
        W1 == IF message.type = "update" /\ Truthy(wid)
              THEN IF data = None THEN [W EXCEPT !.cache[wid] = NoRef]
                   ELSE [CacheNewArray(W, wid, data[1]) EXCEPT !.h.savedBoard = NoRef]
              ELSE IF message.type = "clear" /\ Truthy(wid)
              THEN [W EXCEPT !.cache[wid] = NoRef]
              ELSE W
    IN  [W |-> W1, calls |-> eventHandlers[n], seen |-> CacheVal(W1, wid)]

\* the read-only mirror id of a board (ReadOnlyBackendService.getReadOnlyId)
ReadOnlyId(wid) == IF wid = "b1" THEN "r1" ELSE IF wid = "b2" THEN "r2" ELSE "undefined"

\* the callback the server registers with onRemoteEvent: the emits it makes, each to
\* the clients this node holds in a room
ServerCallback(event) ==
    IF event.type = "update" /\ "content" \in DOMAIN event
    THEN <<[room |-> Get(event, "wid"), content |-> event.content]>>
    ELSE <<>>

\* the emits of the callbacks that handleRemoteEvent called
RECURSIVE Emits(_, _)
Emits(calls, event) ==
    IF calls = <<>> THEN <<>>
    ELSE (IF Head(calls) = "emit" THEN ServerCallback(event) ELSE <<>>)
            \o Emits(Tail(calls), event)

\* faulty variant: the node-id test is missing
HandleRemoteEventNoOriginTest(W, n, message) == ApplyRemoteEvent(W, n, message)

\* handleRemoteEvent
HandleRemoteEvent(W, n, message) ==
    IF message.nodeId = NodeId(n) THEN [W |-> W, calls |-> <<>>, seen |-> None]
    ELSE ApplyRemoteEvent(W, n, message)

-----------------------------------------------------------------------------
(* Actions *)

\* MetricsService: the connection and event counters after construction
NewMetrics ==
    [activeConnections |-> 0, totalConnections |-> 0, totalDisconnections |-> 0,
     totalDrawEvents |-> 0, totalUndoEvents |-> 0, totalRedoEvents |-> 0,
     totalClearEvents |-> 0, redisPublishCount |-> 0]

\* drawEvent()
DrawEvent(m) == [m EXCEPT !.totalDrawEvents = @ + 1]

\* Math.max
Max(a, b) == IF a >= b THEN a ELSE b

\* connectionOpened()
ConnectionOpened(m) ==
    [m EXCEPT !.activeConnections = @ + 1, !.totalConnections = @ + 1]

\* faulty variant: the gauge is decremented without the floor at zero
ConnectionClosedNoFloor(m) ==
    [m EXCEPT !.activeConnections = @ - 1, !.totalDisconnections = @ + 1]

\* connectionClosed()
ConnectionClosed(m) ==
    [m EXCEPT !.activeConnections = Max(0, @ - 1), !.totalDisconnections = @ + 1]

\* the step's world becomes the state; an array nothing holds any more is dropped
CommitWorld(n, s, W) ==
    /\ localCache' = [localCache EXCEPT ![n] = W.cache]
    /\ heap' = [heap EXCEPT ![n] = [r \in Refs |-> IF r \in Live(W) THEN W.heap[r] ELSE <<>>]]
    /\ hs' = [hs EXCEPT ![n][s] = W.h]
    /\ store' = W.store
    /\ inbox' = W.inbox
    /\ hist' = W.hist
    /\ last' = W.last
    /\ UNCHANGED <<isConnected, eventHandlers, adapter, kv, redisFails>>

\* a step of the service: it holds no reference to the metrics
Commit(n, s, W) == CommitWorld(n, s, W) /\ UNCHANGED metrics

Entered(n, s, fn, content) ==
    [World(n, s) EXCEPT !.h = [IdleH EXCEPT !.fn = fn, !.content = content]]

\* faulty variant: a tool that is not listed is saved like a drawing tool
DispatchSavesAnyTool(W, n) ==
    LET content == W.h.content
        tool == content.t
    IN  IF tool = "clear" THEN ClearWhiteboard(W, n)
        ELSE LoadStoredData(W, n)

\* handleEventsAndData: the branch taken on content.t, up to the first await on Redis
Dispatch(W, n) ==
    LET content == W.h.content
        tool == content.t
    IN  IF tool = "clear" THEN ClearWhiteboard(W, n)
        ELSE IF tool = "undo" \/ tool = "redo" THEN LoadStoredData(W, n)
        ELSE IF IsDrawingTool(tool) THEN LoadStoredData(W, n)
        ELSE PublishUpdate(Log(W, LogRec("other", n, content, <<>>, <<>>, <<>>, <<>>)), n)

\* handleEventsAndData(content), up to its first await on Redis
HandleEventsAndData(n, s, content) ==
    /\ hs[n][s].pc = "idle"
    /\ ops' = ops + 1
    /\ Commit(n, s, Dispatch(Entered(n, s, "handleEventsAndData", content), n))

\* the server's handler of a client's "drawToWhiteboard" message, up to the first await
\* of handleEventsAndData; the board is set and is not read-only
SocketDrawToWhiteboard(n, s, content, tokenMatches) ==
    /\ hs[n][s].pc = "idle"
    /\ ops' = ops + 1
    /\ IF tokenMatches
       THEN /\ metrics' = [metrics EXCEPT ![n] = DrawEvent(@)]
            /\ CommitWorld(n, s, Dispatch(Entered(n, s, "handleEventsAndData", content), n))
       ELSE /\ last' = [kind |-> "wrongAccessToken", node |-> n]
            /\ UNCHANGED <<isConnected, localCache, heap, eventHandlers, hs, store, inbox,
                           hist, adapter, kv, redisFails, metrics>>

\* ReadOnlyBackendService.isReadOnly: the id is the read-only id of a board
IsReadOnly(wid) == \E b \in Boards : wid = ReadOnlyId(b)

\* the rooms the handler of "drawToWhiteboard" broadcasts the command to
BroadcastRooms(whiteboardId) == {whiteboardId, ReadOnlyId(whiteboardId)}

\* the server's handler of "drawToWhiteboard" on a socket whose joinWhiteboard set
\* whiteboardId (the empty string: the socket joined no board), up to the first await
SocketDrawOnBoard(n, s, whiteboardId, content, tokenMatches) ==
    IF ~Truthy(whiteboardId) \/ IsReadOnly(whiteboardId)
    THEN /\ hs[n][s].pc = "idle"
         /\ ops' = ops + 1
         /\ last' = [kind |-> "ignored", node |-> n]
         /\ UNCHANGED <<isConnected, localCache, heap, eventHandlers, hs, store, inbox,
                        hist, adapter, kv, redisFails, metrics>>
    ELSE SocketDrawToWhiteboard(n, s, content, tokenMatches)

\* loadStoredData(wid) called by the server, up to its await
LoadCommand(n, s, wid) ==
    /\ hs[n][s].pc = "idle"
    /\ ops' = ops + 1
    /\ Commit(n, s, LoadStoredData(Entered(n, s, "loadStoredData", [t |-> "load", wid |-> wid]), n))

\* copyStoredData(sourceWid, targetWid), up to its first await on Redis
CopyCommand(n, s, sourceWid, targetWid) ==
    /\ hs[n][s].pc = "idle"
    /\ ops' = ops + 1
    /\ Commit(n, s, LoadStoredData(Entered(n, s, "copyStoredData",
                        [t |-> "copy", wid |-> sourceWid,
                         source |-> sourceWid, target |-> targetWid]), n))

\* listGetAll of loadStoredData returned
ResumeLoad(n, s) ==
    /\ hs[n][s].pc = "load"
    /\ Commit(n, s, LoadStoredDataAfterRead(World(n, s), n))
    /\ UNCHANGED ops

\* listGetAll of getUndoStack returned
ResumeGetUndoStack(n, s) ==
    /\ hs[n][s].pc = "getundo"
    /\ Commit(n, s, IF hs[n][s].thrown THEN Raise(World(n, s), n)
                    ELSE UndoRedo(World(n, s), n, hs[n][s].rd))
    /\ UNCHANGED ops

\* del of saveUndoStack's listReplace returned
ResumeUndoDel(n, s) ==
    /\ hs[n][s].pc = "undo_del"
    /\ Commit(n, s, SaveUndoStackAfterDel(World(n, s), n))
    /\ UNCHANGED ops

\* rPush of saveUndoStack's listReplace returned
ResumeUndoPush(n, s) ==
    /\ hs[n][s].pc = "undo_push"
    /\ Commit(n, s, SaveToDB([World(n, s) EXCEPT !.h.undoStack = <<>>], n))
    /\ UNCHANGED ops

\* del of saveToDB's listReplace returned
ResumeDbDel(n, s) ==
    /\ hs[n][s].pc = "db_del"
    /\ Commit(n, s, SaveToDBAfterDel(World(n, s), n))
    /\ UNCHANGED ops

\* rPush of saveToDB's listReplace returned
ResumeDbPush(n, s) ==
    /\ hs[n][s].pc = "db_push"
    /\ Commit(n, s, AfterSave(World(n, s), n))
    /\ UNCHANGED ops

\* faulty variant: the undo stack is not deleted
ResumeClearDel1KeepsUndo(n, s) ==
    /\ hs[n][s].pc = "clr_del1"
    /\ Commit(n, s, [World(n, s) EXCEPT !.h.pc = "clr_del2"])
    /\ UNCHANGED ops

\* clearWhiteboard: delete of the board list returned, the undo stack is deleted
ResumeClearDel1(n, s) ==
    /\ hs[n][s].pc = "clr_del1"
    /\ LET W == World(n, s)
       IN  Commit(n, s, [W EXCEPT !.h.pc = "clr_del2",
                                  !.store = Effect(W.store, Del(W.store,
                                                Key(UNDO_PREFIX, W.h.content.wid)))])
    /\ UNCHANGED ops

\* clearWhiteboard: delete of the undo stack returned, the clear event is published
ResumeClearDel2(n, s) ==
    /\ hs[n][s].pc = "clr_del2"
    /\ LET W == World(n, s)
       IN  Commit(n, s, [PublishEvent(W, n, [type |-> "clear", wid |-> W.h.content.wid])
                            EXCEPT !.h.pc = "pub_clear"])
    /\ UNCHANGED ops

\* clearWhiteboard returned to handleEventsAndData, which publishes its update event
ResumeClearPublished(n, s) ==
    /\ hs[n][s].pc = "pub_clear"
    /\ Commit(n, s, PublishUpdate(World(n, s), n))
    /\ UNCHANGED ops

\* the subscriber hands the next message of the channel to handleRemoteEvent
Deliver(n) ==
    /\ inbox[n] # <<>>
    /\ LET message == Head(inbox[n])
           W == [cache |-> localCache[n], heap |-> heap[n], h |-> IdleH,
                 pinned |-> UNION {HeldBy(hs[n][t]) : t \in Slots}]
           r == HandleRemoteEvent(W, n, message)
       IN  /\ localCache' = [localCache EXCEPT ![n] = r.W.cache]
           /\ heap' = [heap EXCEPT ![n] = [q \in Refs |-> IF q \in Live(r.W) THEN r.W.heap[q]
                                                       ELSE <<>>]]
           /\ last' = [kind |-> "remote", node |-> n, msg |-> message, calls |-> r.calls,
                       seen |-> r.seen, emits |-> Emits(r.calls, message),
                       cacheBefore |-> [b \in Boards |-> CacheVal(W, b)],
                       cacheAfter |-> [b \in Boards |-> CacheVal(r.W, b)]]
    /\ inbox' = [inbox EXCEPT ![n] = Tail(@)]
    /\ UNCHANGED <<isConnected, eventHandlers, hs, store, ops, hist, adapter, kv, redisFails, metrics>>

\* onRemoteEvent(handler)
OnRemoteEvent(n, handler) ==
    /\ eventHandlers' = [eventHandlers EXCEPT ![n] = Append(@, handler)]
    /\ last' = [kind |-> "register", node |-> n, handler |-> handler]
    /\ UNCHANGED <<isConnected, localCache, heap, hs, store, inbox, ops, hist, adapter, kv,
                   redisFails, metrics>>

Resume(n, s) ==
    \/ ResumeLoad(n, s)
    \/ ResumeGetUndoStack(n, s)
    \/ ResumeUndoDel(n, s)
    \/ ResumeUndoPush(n, s)
    \/ ResumeDbDel(n, s)
    \/ ResumeDbPush(n, s)
    \/ ResumeClearDel1(n, s)
    \/ ResumeClearDel2(n, s)
    \/ ResumeClearPublished(n, s)

AllIdle == \A n \in Nodes, s \in Slots : hs[n][s].pc = "idle"
Quiescent == AllIdle /\ \A n \in Nodes : inbox[n] = <<>>

-----------------------------------------------------------------------------
(* RedisAdapter, operation by operation.  A Redis command runs when its      *)
(* client is open and the command does not fail; a command that fails, or a  *)
(* client that is missing or closed, throws inside the operation's try.      *)

CHANNEL_WHITEBOARD_EVENTS == "whiteboard:events"
Channels == {CHANNEL_WHITEBOARD_EVENTS, "c"}
HandlerNames == {"h1", "h2"}
NoHandler == "none"
KvKeys == {<<"session:", "k1">>}
Null == "null"

\* new RedisAdapter()
NewAdapter ==
    [publisher |-> "null", subscriber |-> "null",
     handlers |-> [c \in Channels |-> NoHandler], listeners |-> <<>>, replacing |-> <<>>]

\* the adapter after connect() succeeded and RedisWhiteboardService.initialize() ran
InitializedAdapter ==
    [publisher |-> "open", subscriber |-> "open",
     handlers |-> [c \in Channels |-> IF c = CHANNEL_WHITEBOARD_EVENTS
                                      THEN "handleRemoteEvent" ELSE NoHandler],
     listeners |-> <<[channel |-> CHANNEL_WHITEBOARD_EVENTS, handler |-> "handleRemoteEvent"]>>,
     replacing |-> <<>>]

\* the adapter after a connect() whose subscriber client could not connect
HalfConnectedAdapter == [NewAdapter EXCEPT !.publisher = "open", !.subscriber = "closed"]

\* JSON.stringify(value) and JSON.parse(text)
Stringify(value) == [json |-> value]
Parse(text) == text.json

PublisherRuns(n, fails) == adapter[n].publisher = "open" /\ ~fails
SubscriberRuns(n, fails) == adapter[n].subscriber = "open" /\ ~fails

\* the listeners of node n's subscriber client on a channel, in the order given
ListenersOn(n, channel) ==
    SelectSeq(adapter[n].listeners, LAMBDA l : l.channel = channel)

\* the keys Redis holds that match a pattern
Matching(pattern) ==
    {k \in KvKeys : kv[k] # None /\ (pattern = "*" \/ pattern = k[1])}
        \cup {k \in Keys : store[k] # <<>> /\ (pattern = "*" \/ pattern = k[1])}

\* one call of an adapter operation: what it returned and what it left
AdapterCall(n, op, ret, a, st, values, inb) ==
    /\ ops' = ops + 1
    /\ adapter' = [adapter EXCEPT ![n] = a]
    /\ store' = st
    /\ kv' = values
    /\ inbox' = inb
    /\ last' = [kind |-> "adapter", op |-> op, node |-> n, ready |-> isConnected[n], ret |-> ret]
    /\ UNCHANGED <<localCache, heap, eventHandlers, hs, hist, redisFails, metrics>>

\* an operation that returned without a Redis command having run
Returned(n, op, ret) ==
    AdapterCall(n, op, ret, adapter[n], store, kv, inbox) /\ UNCHANGED isConnected

\* connect(config)
AdapterConnect(n, outcome) ==
    /\ adapter[n].publisher = "null"
    /\ isConnected' = [isConnected EXCEPT ![n] = (outcome = "connected")]
    /\ AdapterCall(n, "connect", outcome = "connected",
           CASE outcome = "connected" ->
                    [adapter[n] EXCEPT !.publisher = "open", !.subscriber = "open"]
             [] outcome = "subscriberFails" ->
                    [adapter[n] EXCEPT !.publisher = "open", !.subscriber = "closed"]
             [] OTHER -> [adapter[n] EXCEPT !.publisher = "closed"],
           store, kv, inbox)

\* disconnect()
AdapterDisconnect(n, fails) ==
    /\ isConnected' = [isConnected EXCEPT ![n] = IF fails THEN @ ELSE FALSE]
    /\ AdapterCall(n, "disconnect", Null,
           IF fails THEN adapter[n]
           ELSE [adapter[n] EXCEPT
                    !.publisher = IF @ = "null" THEN @ ELSE "closed",
                    !.subscriber = IF @ = "null" THEN @ ELSE "closed",
                    !.listeners = <<>>],
           store, kv, inbox)

\* faulty variant: the readiness flag is not consulted
AdapterPublishUnguarded(n, channel, message, fails) ==
    IF PublisherRuns(n, fails)
    THEN /\ AdapterCall(n, "publish", TRUE, adapter[n], store, kv,
                [m \in Nodes |-> IF ListenersOn(m, channel) # <<>>
                                 THEN Append(inbox[m], [channel |-> channel,
                                                        message |-> Stringify(message)])
                                 ELSE inbox[m]])
         /\ UNCHANGED isConnected
    ELSE Returned(n, "publish", FALSE)

\* publish(channel, message)
AdapterPublish(n, channel, message, fails) ==
    IF ~isConnected[n] THEN Returned(n, "publish", FALSE)
    ELSE IF PublisherRuns(n, fails)
    THEN /\ AdapterCall(n, "publish", TRUE, adapter[n], store, kv,
                [m \in Nodes |-> IF ListenersOn(m, channel) # <<>>
                                 THEN Append(inbox[m], [channel |-> channel,
                                                        message |-> Stringify(message)])
                                 ELSE inbox[m]])
         /\ UNCHANGED isConnected
    ELSE Returned(n, "publish", FALSE)

\* subscribe(channel, handler): the handlers map is written before the client is asked.
\* The client library is not part of the repository: given a second listener for a
\* channel it keeps both (keepsAll) or only the later one.
AdapterSubscribe(n, channel, handler, fails, keepsAll) ==
    IF ~isConnected[n] THEN Returned(n, "subscribe", FALSE)
    ELSE LET a == [adapter[n] EXCEPT !.handlers[channel] = handler]
             l == [channel |-> channel, handler |-> handler]
             others == SelectSeq(a.listeners, LAMBDA x : x.channel # channel)
         IN  /\ IF SubscriberRuns(n, fails)
                THEN AdapterCall(n, "subscribe", TRUE,
                        [a EXCEPT !.listeners = IF keepsAll THEN Append(@, l)
                                                ELSE Append(others, l)],
                        store, kv, inbox)
                ELSE AdapterCall(n, "subscribe", FALSE, a, store, kv, inbox)
             /\ UNCHANGED isConnected

\* unsubscribe(channel)
AdapterUnsubscribe(n, channel, fails) ==
    IF ~isConnected[n] THEN Returned(n, "unsubscribe", FALSE)
    ELSE IF SubscriberRuns(n, fails)
    THEN /\ AdapterCall(n, "unsubscribe", TRUE,
                [adapter[n] EXCEPT
                    !.listeners = SelectSeq(@, LAMBDA x : x.channel # channel),
                    !.handlers[channel] = NoHandler],
                store, kv, inbox)
         /\ UNCHANGED isConnected
    ELSE Returned(n, "unsubscribe", FALSE)

\* set(key, value, ttl); a ttl of 0 stands for no ttl (null)
AdapterSet(n, key, value, ttl, fails) ==
    IF ~isConnected[n] THEN Returned(n, "set", FALSE)
    ELSE IF PublisherRuns(n, fails)
    THEN /\ AdapterCall(n, "set", TRUE, adapter[n], store,
                [kv EXCEPT ![key] = Some([text |-> Stringify(value), expires |-> ttl # 0])],
                inbox)
         /\ UNCHANGED isConnected
    ELSE Returned(n, "set", FALSE)

\* get(key)
AdapterGet(n, key, fails) ==
    IF ~isConnected[n] THEN Returned(n, "get", Null)
    ELSE IF PublisherRuns(n, fails) /\ kv[key] # None
    THEN Returned(n, "get", Parse(kv[key][1].text))
    ELSE Returned(n, "get", Null)

\* delete(key)
AdapterDelete(n, key, fails) ==
    IF ~isConnected[n] THEN Returned(n, "delete", FALSE)
    ELSE IF PublisherRuns(n, fails)
    THEN /\ AdapterCall(n, "delete", TRUE, adapter[n],
                IF key \in Keys THEN Del(store, key) ELSE store,
                IF key \in KvKeys THEN [kv EXCEPT ![key] = None] ELSE kv,
                inbox)
         /\ UNCHANGED isConnected
    ELSE Returned(n, "delete", FALSE)

\* keys(pattern)
AdapterKeys(n, pattern, fails) ==
    IF ~isConnected[n] THEN Returned(n, "keys", {})
    ELSE IF PublisherRuns(n, fails) THEN Returned(n, "keys", Matching(pattern))
    ELSE Returned(n, "keys", {})

\* listPush(key, value)
AdapterListPush(n, key, value, fails) ==
    IF ~isConnected[n] THEN Returned(n, "listPush", FALSE)
    ELSE IF PublisherRuns(n, fails)
    THEN /\ AdapterCall(n, "listPush", TRUE, adapter[n], RPush(store, key, <<value>>),
                         kv, inbox)
         /\ UNCHANGED isConnected
    ELSE Returned(n, "listPush", FALSE)

\* listGetAll(key)
AdapterListGetAll(n, key, fails) ==
    IF ~isConnected[n] THEN Returned(n, "listGetAll", <<>>)
    ELSE IF PublisherRuns(n, fails) THEN Returned(n, "listGetAll", LRange(store, key))
    ELSE Returned(n, "listGetAll", <<>>)

\* listReplace(key, items), up to the return of its del
\* (replacing holds the calls of this node that are between their del and their rPush)
AdapterListReplace(n, key, items, fails) ==
    IF ~isConnected[n] THEN Returned(n, "listReplace", FALSE)
    ELSE IF PublisherRuns(n, fails)
    THEN IF Len(items) > 0
         THEN /\ AdapterCall(n, "listReplaceDel", Null,
                     [adapter[n] EXCEPT
                        !.replacing = Append(@, [key |-> key, items |-> items])],
                     Del(store, key), kv, inbox)
              /\ UNCHANGED isConnected
         ELSE /\ AdapterCall(n, "listReplace", TRUE, adapter[n], Del(store, key), kv, inbox)
              /\ UNCHANGED isConnected
    ELSE Returned(n, "listReplace", FALSE)

\* listReplace after its del: the rPush
AdapterListReplacePush(n, k, fails) ==
    /\ k \in DOMAIN adapter[n].replacing
    /\ LET r == adapter[n].replacing[k]
           a == [adapter[n] EXCEPT !.replacing = RemoveAt(@, k)]
       IN  IF PublisherRuns(n, fails)
           THEN AdapterCall(n, "listReplaceEnd", TRUE, a, RPush(store, r.key, r.items),
                            kv, inbox)
           ELSE AdapterCall(n, "listReplaceEnd", FALSE, a, store, kv, inbox)
    /\ UNCHANGED isConnected

\* a value stored with a ttl expires
KvExpire(key) ==
    /\ kv[key] # None
    /\ kv[key][1].expires
    /\ kv' = [kv EXCEPT ![key] = None]
    /\ last' = [kind |-> "expire", key |-> key]
    /\ UNCHANGED <<isConnected, localCache, heap, eventHandlers, hs, store, inbox, ops,
                   hist, adapter, redisFails, metrics>>

\* the subscriber client of node n gets the next message: every listener it holds for
\* the channel parses it and calls its handler
AdapterDeliver(n) ==
    /\ inbox[n] # <<>>
    /\ LET m == Head(inbox[n])
           ls == ListenersOn(n, m.channel)
       IN  last' = [kind |-> "delivery", node |-> n, channel |-> m.channel,
                    message |-> Parse(m.message),
                    calls |-> [i \in DOMAIN ls |-> ls[i].handler],
                    mapped |-> adapter[n].handlers[m.channel],
                    latest |-> IF ls = <<>> THEN NoHandler ELSE ls[Len(ls)].handler]
    /\ inbox' = [inbox EXCEPT ![n] = Tail(@)]
    /\ UNCHANGED <<isConnected, localCache, heap, eventHandlers, hs, store, ops, hist,
                   adapter, kv, redisFails, metrics>>

-----------------------------------------------------------------------------
(* Initial states: the nodes have just started; Redis is empty or holds    *)
(* what an earlier session left.                                           *)

P11 == StripWid(Draw("pen", "b1", "u1", "D1"))
P12 == StripWid(Draw("pen", "b1", "u1", "D2"))
L11 == StripWid(Draw("line", "b1", "u1", "D1"))
Q11 == StripWid(Draw("rect", "b1", "u1", "D1"))
P21 == StripWid(Draw("pen", "b1", "u2", "D1"))
C22 == StripWid(Draw("circle", "b1", "u2", "D2"))
Tx  == StripWid(SetText("b1", "u1", "tb1", "x"))

EmptyStore == [k \in Keys |-> <<>>]

\* left by: u1 draws a rect and undoes it, sets a textbox text and undoes it, then u1
\* and u2 draw
RichStore ==
    [k \in Keys |->
        IF k = Key(WHITEBOARD_PREFIX, "b1") THEN <<P11, P21, C22, P12, L11>>
        ELSE IF k = Key(UNDO_PREFIX, "b1") THEN <<Q11, Tx>>
        ELSE IF k = Key(WHITEBOARD_PREFIX, "b2") THEN <<P21>>
        ELSE <<>>]

InitWith(stores, connected) ==
    /\ isConnected = [n \in Nodes |-> n \in connected]
    /\ localCache = [n \in Nodes |-> [b \in Boards |-> NoRef]]
    /\ heap = [n \in Nodes |-> [r \in Refs |-> <<>>]]
    /\ eventHandlers = [n \in Nodes |-> IF n \in connected THEN <<"emit">> ELSE <<>>]
    /\ hs = [n \in Nodes |-> [s \in Slots |-> IdleH]]
    /\ store \in stores
    /\ inbox = [n \in Nodes |-> <<>>]
    /\ ops = 0
    /\ hist = <<>>
    /\ last = [kind |-> "init"]
    /\ adapter = [n \in Nodes |-> IF n \in connected THEN InitializedAdapter ELSE NewAdapter]
    /\ kv = [k \in KvKeys |-> None]
    /\ redisFails = FALSE
    /\ metrics = [n \in Nodes |-> NewMetrics]

-----------------------------------------------------------------------------
(* Spec: both nodes connected; commands are handled one at a time, while   *)
(* published messages are delivered at any later moment.                   *)

MaxOps == 2

\* u1 is connected to n1 and u2 to n2 (the load balancer's sessions are sticky)
CmdsOf(n) ==
    IF n = "n1"
    THEN {Draw("pen", "b1", "u1", "D1"), SetText("b1", "u1", "tb1", "x"),
          Cmd("undo", "b1", "u1"), Cmd("redo", "b1", "u1"), Cmd("clear", "b1", "u1")}
    ELSE {Draw("pen", "b1", "u2", "D1"), Draw("pen", "b2", "u2", "D1"),
          Cmd("undo", "b1", "u2"), Cmd("redo", "b1", "u2")}

Init == InitWith({RichStore}, Nodes)

Next ==
    \/ \E n \in Nodes : \E c \in CmdsOf(n) :
          ops < MaxOps /\ AllIdle /\ HandleEventsAndData(n, 1, c)
    \/ \E n \in Nodes : Resume(n, 1)
    \/ \E n \in Nodes : Deliver(n)

Spec == Init /\ [][Next]_vars

-----------------------------------------------------------------------------
(* Properties of handleRemoteEvent and of the events published *)

\* C1: a message whose nodeId is the receiving node's own id, of either type and for
\* any board, leaves that node's cache as it was for every board and reaches no
\* registered handler.
SelfSuppression ==
    (last.kind = "remote" /\ last.msg.nodeId = NodeId(last.node))
        => (last.cacheAfter = last.cacheBefore /\ last.calls = <<>>)

\* a node handles its own update message while its cache already differs from the data
SelfSuppressionWitness ==
    /\ last.kind = "remote"
    /\ last.msg.nodeId = NodeId(last.node)
    /\ last.msg.type = "update"
    /\ MsgData(last.msg) # None
    /\ MsgData(last.msg) # last.cacheBefore[last.msg.wid]
    /\ eventHandlers[last.node] # <<>>

\* C2: an update message from another node makes the cache entry of its board equal
\* to the message's data, whatever the entry held, and changes no other board's entry.
WholesaleReplacement ==
    (last.kind = "remote" /\ last.msg.nodeId # NodeId(last.node) /\ last.msg.type = "update")
        => /\ last.cacheAfter[last.msg.wid] = MsgData(last.msg)
           /\ \A b \in Boards \ {last.msg.wid} : last.cacheAfter[b] = last.cacheBefore[b]

\* an update from another node replaces a longer cached list
WholesaleReplacementWitness ==
    /\ last.kind = "remote"
    /\ last.msg.nodeId # NodeId(last.node)
    /\ last.msg.type = "update"
    /\ MsgData(last.msg) # None
    /\ last.cacheBefore[last.msg.wid] # None
    /\ Len(last.msg.data) > 0
    /\ Len(last.msg.data) < Len(last.cacheBefore[last.msg.wid][1])

\* the list of board b that node n holds, if it holds one
Held(n, b) == IF localCache[n][b] = NoRef THEN None ELSE Some(heap[n][localCache[n][b]])

\* C3: once every handler has returned and every message has been handled, the nodes
\* that hold a board hold the same list of it.
EventualConsistency ==
    Quiescent => \A n \in Nodes, m \in Nodes, b \in Boards :
                    (Held(n, b) # None /\ Held(m, b) # None) => Held(n, b) = Held(m, b)

\* the list a handler of handleEventsAndData has left for its board when it publishes
PostMutationList ==
    IF last.list = None THEN <<>> ELSE last.list[1]

\* C5: the update event handleEventsAndData publishes for clear, undo, redo or a
\* drawing tool carries, as data, the complete list of the board on the publishing
\* node after the mutation.
FullSnapshotPublish ==
    (/\ last.kind = "publish" /\ last.msg.type = "update" /\ last.fn = "handleEventsAndData"
     /\ (last.content.t \in {"clear", "undo", "redo"} \/ IsDrawingTool(last.content.t)))
        => MsgData(last.msg) = Some(PostMutationList)

-----------------------------------------------------------------------------
(* Properties of undo, redo and the textbox collapse *)

ToSet(seq) == {seq[i] : i \in DOMAIN seq}
Owner(a) == Get(a, "username")

\* the undo logged at i moved something of its user to the stack
UndoMoved(i) == hist[i].op = "undo" /\ hist[i].before # hist[i].after

\* the actions the undo logged at i took off the list
UndoneGroup(i) == ToSet(hist[i].before) \ ToSet(hist[i].after)

\* the redo logged at j is by the user of the undo logged at i, on the same board, and
\* finds the undo stack as that undo left it
RedoFollows(i, j) ==
    /\ i < j
    /\ UndoMoved(i)
    /\ hist[j].op = "redo"
    /\ hist[j].wid = hist[i].wid
    /\ hist[j].user = hist[i].user
    /\ hist[j].stackBefore = hist[i].stackAfter

\* drawId of the group the undo logged at i moved
UndoneDrawId(i) == Get((CHOOSE a \in UndoneGroup(i) : TRUE), "drawId")

\* the stack held, before the undo logged at i, an entry of the same user and drawId
EarlierEntry(i) ==
    \E k \in DOMAIN hist[i].stackBefore :
        /\ Owner(hist[i].stackBefore[k]) = hist[i].user
        /\ Get(hist[i].stackBefore[k], "drawId") = UndoneDrawId(i)

\* C6 as stated: undo moves A from the list to the stack, the redo that follows moves
\* it back, and the set of actions on the list after the redo is the set before the undo.
UndoRedoRoundTrip ==
    \A i \in DOMAIN hist : \A j \in DOMAIN hist :
        (RedoFollows(i, j) /\ j = i + 1 /\ hist[j].before = hist[i].after)
            => /\ \A a \in UndoneGroup(i) :
                     /\ a \in ToSet(hist[i].stackAfter)
                     /\ a \in ToSet(hist[j].after)
                     /\ a \notin ToSet(hist[j].stackAfter)
               /\ ToSet(hist[j].after) = ToSet(hist[i].before)

\* C6 amended: undo moves A from the list to the stack; a following redo that finds the
\* stack as the undo left it moves A back to the list and keeps every action the list
\* held when the redo started; the set after the redo is the set before the undo when
\* nothing changed the list in between and the stack held no earlier entry of the user
\* with A's drawId (redo restores such entries too).
UndoRedoRoundTripAmended ==
    \A i \in DOMAIN hist : \A j \in DOMAIN hist :
        RedoFollows(i, j)
            => /\ \A a \in UndoneGroup(i) :
                     /\ a \in ToSet(hist[i].stackAfter)
                     /\ a \in ToSet(hist[j].after)
                     /\ a \notin ToSet(hist[j].stackAfter)
               /\ ToSet(hist[j].before) \subseteq ToSet(hist[j].after)
               /\ (hist[j].before = hist[i].after /\ ~EarlierEntry(i))
                     => ToSet(hist[j].after) = ToSet(hist[i].before)

\* an undo took an action from the middle of the list and the next redo put it back
UndoRedoRoundTripWitness ==
    \E i \in DOMAIN hist : \E j \in DOMAIN hist :
        /\ RedoFollows(i, j)
        /\ hist[j].before = hist[i].after
        /\ ~EarlierEntry(i)
        /\ hist[j].after # hist[i].before
        /\ Len(hist[i].after) > 0

\* the elements of seq that username does not own, in their order
NotOwnedBy(seq, username) == SelectSeq(seq, LAMBDA a : Owner(a) # username)

\* C7: an undo by U removes no action of another owner, and the actions of the other
\* owners keep their order.
UndoScoping ==
    \A i \in DOMAIN hist :
        hist[i].op = "undo"
            => NotOwnedBy(hist[i].after, hist[i].user) = NotOwnedBy(hist[i].before, hist[i].user)

\* an undo removed a group that had two actions of another user between its members,
\* one of them with the group's drawId
UndoScopingWitness ==
    \E i \in DOMAIN hist :
        /\ UndoMoved(i)
        /\ Len(NotOwnedBy(hist[i].before, hist[i].user)) >= 2
        /\ \E p, q, r \in DOMAIN hist[i].before :
              /\ p < q /\ q < r
              /\ hist[i].before[p] \in UndoneGroup(i)
              /\ hist[i].before[r] \in UndoneGroup(i)
              /\ Owner(hist[i].before[q]) # hist[i].user
              /\ Get(hist[i].before[q], "drawId") = UndoneDrawId(i)

\* position of the most recent action of username in seq (there is one)
MostRecentOf(seq, username) ==
    CHOOSE k \in DOMAIN seq :
        /\ Owner(seq[k]) = username
        /\ \A m \in DOMAIN seq : Owner(seq[m]) = username => m <= k

\* C8: an undo by U removes exactly the actions of U that carry the drawId of U's most
\* recent action on the list, and leaves the rest of the list as it was.
AtomicGroupUndo ==
    \A i \in DOMAIN hist :
        (hist[i].op = "undo" /\ \E k \in DOMAIN hist[i].before : Owner(hist[i].before[k]) = hist[i].user)
            => LET U == hist[i].user
                   D == Get(hist[i].before[MostRecentOf(hist[i].before, U)], "drawId")
               IN  hist[i].after =
                      SelectSeq(hist[i].before, LAMBDA a : ~(Owner(a) = U /\ Get(a, "drawId") = D))

\* an undo removed two actions that were not neighbours and left an action of the same
\* user with another drawId on the list
AtomicGroupUndoWitness ==
    \E i \in DOMAIN hist :
        /\ hist[i].op = "undo"
        /\ Len(hist[i].before) - Len(hist[i].after) >= 2
        /\ \E a \in ToSet(hist[i].after) : Owner(a) = hist[i].user
        /\ \E p, q, r \in DOMAIN hist[i].before :
              /\ p < q /\ q < r
              /\ hist[i].before[p] \in UndoneGroup(i)
              /\ hist[i].before[q] \notin UndoneGroup(i)
              /\ hist[i].before[r] \in UndoneGroup(i)

IsText(a) == Get(a, "t") = "setTextboxText"

\* at most one setTextboxText action for each textbox id
OneTextPerId(list) ==
    \A p, q \in DOMAIN list :
        (p < q /\ IsText(list[p]) /\ IsText(list[q])) => list[p].d[1] # list[q].d[1]

\* C10: every list of a board, in Redis and in a node's cache, holds at most one
\* setTextboxText action for each textbox id, and after two consecutive setTextboxText
\* draws for one id the one stored is the later.
TextboxCollapse ==
    /\ \A b \in Boards : OneTextPerId(store[Key(WHITEBOARD_PREFIX, b)])
    /\ \A n \in Nodes, b \in Boards : Held(n, b) # None => OneTextPerId(Held(n, b)[1])
    /\ \A i \in DOMAIN hist :
          (/\ i + 1 \in DOMAIN hist
           /\ hist[i].op = "draw" /\ hist[i + 1].op = "draw"
           /\ hist[i].content.t = "setTextboxText" /\ hist[i + 1].content.t = "setTextboxText"
           /\ hist[i].wid = hist[i + 1].wid
           /\ hist[i].content.d[1] = hist[i + 1].content.d[1]
           /\ hist[i + 1].before = hist[i].after)
            => SelectSeq(hist[i + 1].after, LAMBDA a : IsText(a) /\ a.d[1] = hist[i].content.d[1])
                   = <<StripWid(hist[i + 1].content)>>

-----------------------------------------------------------------------------
(* SpecSequential: draws and loads issued one at a time on either node, each *)
(* one started only when every handler has returned and every message has    *)
(* been handled.                                                             *)

MaxDraws == 3

DrawsOf(n) ==
    IF n = "n1"
    THEN {Draw("pen", "b1", "u1", "D1"),
          SetText("b1", "u1", "tb1", "x"), SetText("b1", "u1", "tb1", "y")}
    ELSE {Draw("pen", "b1", "u2", "D1"), SetText("b1", "u2", "tb1", "z"),
          Draw("circle", "b2", "u2", "D2")}

InitSequential == InitWith({EmptyStore}, Nodes)

NextSequential ==
    \/ \E n \in Nodes : \E c \in DrawsOf(n) :
          ops < MaxDraws /\ Quiescent /\ HandleEventsAndData(n, 1, c)
    \/ \E n \in Nodes : \E b \in Boards :
          ops < MaxDraws /\ Quiescent /\ LoadCommand(n, 1, b)
    \/ \E n \in Nodes : ResumeLoad(n, 1)
    \/ \E n \in Nodes : ResumeDbDel(n, 1)
    \/ \E n \in Nodes : ResumeDbPush(n, 1)
    \/ \E n \in Nodes : Deliver(n)

SpecSequential == InitSequential /\ [][NextSequential]_vars

\* the positions in hist, before position i, of the draws on board b
DrawIndexes(i, b) ==
    SelectSeq([k \in 1 .. (i - 1) |-> k], LAMBDA k : hist[k].op = "draw" /\ hist[k].wid = b)

\* the actions drawn on board b before position i of hist, in the order drawn
DrawnSoFar(i, b) ==
    LET ks == DrawIndexes(i, b)
    IN  [j \in DOMAIN ks |-> StripWid(hist[ks[j]].content)]

\* the draw at position k is a setTextboxText and a later one, before position i, set
\* the text of the same textbox of the same board
Superseded(k, i) ==
    /\ IsText(hist[k].content)
    /\ \E m \in (k + 1) .. (i - 1) :
          /\ hist[m].op = "draw"
          /\ hist[m].wid = hist[k].wid
          /\ IsText(hist[m].content)
          /\ hist[m].content.d[1] = hist[k].content.d[1]

\* the actions drawn on board b before position i that no later setTextboxText replaced
DrawnAndKept(i, b) ==
    LET ks == SelectSeq(DrawIndexes(i, b), LAMBDA k : ~Superseded(k, i))
    IN  [j \in DOMAIN ks |-> StripWid(hist[ks[j]].content)]

\* C4 as stated: a load returns every action drawn on the board so far, in the order
\* drawn.
SequentialVisibility ==
    \A i \in DOMAIN hist :
        hist[i].op = "load" => hist[i].after = DrawnSoFar(i, hist[i].wid)

\* C4 amended: a load returns, in the order drawn, every action drawn on the board so
\* far except the setTextboxText actions that a later setTextboxText draw for the same
\* textbox id has replaced.
SequentialVisibilityAmended ==
    \A i \in DOMAIN hist :
        hist[i].op = "load" => hist[i].after = DrawnAndKept(i, hist[i].wid)

\* a load on one node returns two actions, the first drawn on the other node, the
\* second on either
SequentialVisibilityWitness ==
    \E i \in DOMAIN hist :
        /\ hist[i].op = "load"
        /\ Len(hist[i].after) = 2
        /\ LET ks == DrawIndexes(i, hist[i].wid)
           IN  /\ Len(ks) = 2
               /\ hist[ks[1]].node # hist[ks[2]].node
               /\ hist[ks[1]].node # hist[i].node

-----------------------------------------------------------------------------
(* SpecUndoBound: the undo stack of b1 is one entry short of the limit and   *)
(* each node handles undo commands of its user; the two nodes run at once.   *)

MaxUndos == 2

\* an action another user drew and undid in an earlier session
Filler(i) == [t |-> "pen", username |-> "u3", drawId |-> ToString(i), d |-> <<>>]

NearlyFullStore ==
    [k \in Keys |->
        IF k = Key(WHITEBOARD_PREFIX, "b1") THEN <<P11, P21, C22, P12, L11>>
        ELSE IF k = Key(UNDO_PREFIX, "b1") THEN [i \in 1 .. (UNDO_LIMIT - 1) |-> Filler(i)]
        ELSE <<>>]

InitUndoBound == InitWith({NearlyFullStore}, Nodes)

UndoOf(n) == IF n = "n1" THEN Cmd("undo", "b1", "u1") ELSE Cmd("undo", "b1", "u2")

NextUndoBound ==
    \/ \E n \in Nodes : ops < MaxUndos /\ HandleEventsAndData(n, 1, UndoOf(n))
    \/ \E n \in Nodes : ResumeLoad(n, 1)
    \/ \E n \in Nodes : ResumeGetUndoStack(n, 1)
    \/ \E n \in Nodes : ResumeUndoDel(n, 1)
    \/ \E n \in Nodes : ResumeUndoPush(n, 1)
    \/ \E n \in Nodes : ResumeDbDel(n, 1)
    \/ \E n \in Nodes : ResumeDbPush(n, 1)
    \/ \E n \in Nodes : Deliver(n)

SpecUndoBound == InitUndoBound /\ [][NextUndoBound]_vars

\* the last k elements of seq
LastK(seq, k) == IF Len(seq) <= k THEN seq ELSE SubSeq(seq, Len(seq) - k + 1, Len(seq))

\* the actions the undo logged at i took off the list, the last of the list first
UndoneInOrder(i) ==
    LET g == SelectSeq(hist[i].before, LAMBDA a : a \in UndoneGroup(i))
    IN  [j \in DOMAIN g |-> g[Len(g) + 1 - j]]

\* C9: once the operations issued have completed, the stored undo stack of every board
\* has at most 1000 entries, and an undo that would make the stack longer keeps the
\* 1000 most recently undone entries.
UndoStackBound ==
    /\ Quiescent => \A b \in Boards : Len(store[Key(UNDO_PREFIX, b)]) <= UNDO_LIMIT
    /\ \A i \in DOMAIN hist :
          hist[i].op = "undo"
              => hist[i].stackAfter = LastK(hist[i].stackBefore \o UndoneInOrder(i), UNDO_LIMIT)

-----------------------------------------------------------------------------
(* SpecSettled: commands are handled one at a time and a command starts only *)
(* when the messages still to be handled are those their own publisher will  *)
(* ignore.                                                                   *)

MaxSettledOps == 3

\* no handler in flight and no message of another node waiting at a node
Settled ==
    /\ AllIdle
    /\ \A n \in Nodes : \A k \in DOMAIN inbox[n] : inbox[n][k].nodeId = NodeId(n)

SettledCmdsOf(n) ==
    IF n = "n1"
    THEN {Cmd("clear", "b1", "u1"), Cmd("redo", "b1", "u1"), Cmd("redo", "b1", "u2")}
    ELSE {Draw("pen", "b1", "u2", "D3"), Cmd("undo", "b1", "u2")}

InitSettled == InitWith({RichStore}, Nodes)

NextSettled ==
    \/ \E n \in Nodes : \E c \in SettledCmdsOf(n) :
          ops < MaxSettledOps /\ Settled /\ HandleEventsAndData(n, 1, c)
    \/ \E n \in Nodes : ops < MaxSettledOps /\ Settled /\ LoadCommand(n, 1, "b1")
    \/ \E n \in Nodes : Resume(n, 1)
    \/ \E n \in Nodes : Deliver(n)

SpecSettled == InitSettled /\ [][NextSettled]_vars

\* the records of hist after position i up to position j are loads and redos of the
\* board cleared at i, on the node that cleared it
OnlyLoadsAndRedosSince(i, j) ==
    \A k \in (i + 1) .. j :
        /\ hist[k].op \in {"load", "redo"}
        /\ hist[k].node = hist[i].node
        /\ hist[k].wid = hist[i].wid

\* C11: when a clear of B completes, B's list and undo stack are absent from Redis and
\* B is absent from the node's cache; a load of B that follows returns an empty list
\* and a redo of B that follows, by any user, finds an empty stack and leaves the list
\* empty.
ClearWipes ==
    /\ (last.kind = "publish" /\ last.msg.type = "update" /\ last.content.t = "clear")
          => /\ store[Key(WHITEBOARD_PREFIX, last.content.wid)] = <<>>
             /\ store[Key(UNDO_PREFIX, last.content.wid)] = <<>>
             /\ Held(last.node, last.content.wid) = None
    /\ \A i \in DOMAIN hist : \A j \in DOMAIN hist :
          (hist[i].op = "clear" /\ i < j /\ OnlyLoadsAndRedosSince(i, j))
              => /\ hist[j].after = <<>>
                 /\ hist[j].stackBefore = <<>>
                 /\ hist[j].stackAfter = <<>>

\* a node that held the five actions of b1 cleared it and then handled a redo
ClearWipesWitness ==
    \E i \in DOMAIN hist :
        /\ hist[i].op = "clear"
        /\ Len(hist[i].before) = 5
        /\ i + 1 \in DOMAIN hist
        /\ hist[i + 1].op = "redo"
        /\ hist[i + 1].node = hist[i].node
        /\ hist[i + 1].after = <<>>

\* what loadStoredData(b) on node n returns when nothing else runs meanwhile: the
\* cached list if there is one, else what Redis holds
LoadWouldReturn(n, b) ==
    IF Held(n, b) # None THEN Held(n, b)[1] ELSE store[Key(WHITEBOARD_PREFIX, b)]

\* C12: once a clear of B handled by node X is the last command issued, every handler
\* has returned and every message has been handled, no other node holds a non-empty
\* list of B and a load of B on any node returns an empty list.
ClearPropagates ==
    (Quiescent /\ hist # <<>> /\ hist[Len(hist)].op = "clear")
        => LET X == hist[Len(hist)].node
               b == hist[Len(hist)].wid
           IN  /\ \A n \in Nodes \ {X} : Held(n, b) \in {None, Some(<<>>)}
               /\ \A n \in Nodes : LoadWouldReturn(n, b) = <<>>

-----------------------------------------------------------------------------
(* SpecCopy: copies of b1 to b2, loads and undos, one command at a time,     *)
(* each started only when nothing is in flight.                              *)

MaxCopyOps == 4

\* b1 holds three actions, b2 has never been drawn on
SourceOnlyStore ==
    [k \in Keys |-> IF k = Key(WHITEBOARD_PREFIX, "b1") THEN <<P11, P21, L11>> ELSE <<>>]

InitCopy == InitWith({SourceOnlyStore}, Nodes)

NextCopy ==
    \/ \E n \in Nodes : \E src \in Boards : \E tgt \in Boards :
          ops < MaxCopyOps /\ Quiescent /\ CopyCommand(n, 1, src, tgt)
    \/ ops < MaxCopyOps /\ Quiescent /\ LoadCommand("n1", 1, "b2")
    \/ ops < MaxCopyOps /\ Quiescent /\ HandleEventsAndData("n1", 1, Cmd("undo", "b1", "u1"))
    \/ \E n \in Nodes : ResumeLoad(n, 1)
    \/ \E n \in Nodes : ResumeGetUndoStack(n, 1)
    \/ \E n \in Nodes : ResumeUndoDel(n, 1)
    \/ \E n \in Nodes : ResumeUndoPush(n, 1)
    \/ \E n \in Nodes : ResumeDbDel(n, 1)
    \/ \E n \in Nodes : ResumeDbPush(n, 1)
    \/ \E n \in Nodes : Deliver(n)

SpecCopy == InitCopy /\ [][NextCopy]_vars

\* C13: a copy leaves the source's list as it was in the cache and in Redis; when the
\* target's list is non-empty or the source's is empty it leaves the target's list as
\* it was in the cache and in Redis; when the source is non-empty and the target empty
\* the target's list becomes the source's list in the cache and in Redis.
CopyNeverOverwrites ==
    (AllIdle /\ hist # <<>> /\ hist[Len(hist)].op = "copy")
        => LET r == hist[Len(hist)]
               n == r.node
               src == r.content.source
               tgt == r.content.target
           IN  /\ store[Key(WHITEBOARD_PREFIX, src)] = r.storeSource \/ src = tgt
               /\ Held(n, src) = Some(r.source) \/ src = tgt
               /\ IF r.source = <<>> \/ r.before # <<>> \/ r.storeTarget # <<>>
                  THEN /\ store[Key(WHITEBOARD_PREFIX, tgt)] = r.storeTarget
                       /\ Held(n, tgt) = Some(r.before)
                  ELSE /\ store[Key(WHITEBOARD_PREFIX, tgt)] = r.source
                       /\ Held(n, tgt) = Some(r.source)


-----------------------------------------------------------------------------
(* SpecLoad: Redis starts empty; the server loads boards on n1, which runs   *)
(* with or without Redis, while u2 draws on b1 and undoes on n2.             *)

MaxLoadOps == 3

InitLoad == \E connected \in {Nodes, {"n2"}} : InitWith({EmptyStore}, connected)

NextLoad ==
    \/ \E b \in Boards :
          ops < MaxLoadOps /\ hs["n1"][1].pc = "idle" /\ LoadCommand("n1", 1, b)
    \/ \E c \in {Draw("pen", "b1", "u2", "D1"), Cmd("undo", "b1", "u2")} :
          ops < MaxLoadOps /\ hs["n2"][1].pc = "idle" /\ HandleEventsAndData("n2", 1, c)
    \/ \E n \in Nodes : ResumeLoad(n, 1)
    \/ \E n \in Nodes : ResumeGetUndoStack(n, 1)
    \/ \E n \in Nodes : ResumeUndoDel(n, 1)
    \/ \E n \in Nodes : ResumeUndoPush(n, 1)
    \/ \E n \in Nodes : ResumeDbDel(n, 1)
    \/ \E n \in Nodes : ResumeDbPush(n, 1)
    \/ \E n \in Nodes : Deliver(n)

SpecLoad == InitLoad /\ [][NextLoad]_vars

\* this step is the return of a loadStoredData(b) call of node n
LoadReturns(n, b) ==
    /\ Len(hist') = Len(hist) + 1
    /\ hist'[Len(hist')].op = "load"
    /\ hist'[Len(hist')].node = n
    /\ hist'[Len(hist')].wid = b

\* the call that returns in this step found b uncached and no list of b in Redis
LoadFoundNothing(n, b) ==
    \/ hs[n][1].pc = "load" /\ hs[n][1].rd = <<>>
    \/ hs[n][1].pc = "idle" /\ Held(n, b) = None /\ ~isConnected[n]

\* the previous call on the node's board was a load that returned the empty list, and
\* the cache still holds what that call put there
SecondLoad(n, b) ==
    /\ hist # <<>>
    /\ hist[Len(hist)].op = "load"
    /\ hist[Len(hist)].node = n
    /\ hist[Len(hist)].wid = b
    /\ hist[Len(hist)].after = <<>>
    /\ Held(n, b) = Some(<<>>)

\* C14: a load of a board that is not cached and has no list in Redis returns the
\* empty list and caches it; the load that follows it on the node returns the empty
\* list in one step, without a read of Redis and without a change of the cache.
LoadIdempotence ==
    [][\A n \in Nodes, b \in Boards :
          /\ (LoadReturns(n, b) /\ LoadFoundNothing(n, b))
                => /\ hist'[Len(hist')].after = <<>>
                   /\ localCache'[n][b] # NoRef
                   /\ heap'[n][localCache'[n][b]] = <<>>
          /\ (LoadReturns(n, b) /\ SecondLoad(n, b))
                => /\ hs[n][1].pc = "idle"
                   /\ hist'[Len(hist')].after = <<>>
                   /\ localCache' = localCache
                   /\ heap' = heap
                   /\ store' = store]_vars

\* a second load has returned on a node that has no other record since its first
LoadIdempotenceWitness ==
    /\ Len(hist) >= 2
    /\ hist[Len(hist)].op = "load"
    /\ hist[Len(hist) - 1].op = "load"
    /\ hist[Len(hist)].node = hist[Len(hist) - 1].node
    /\ hist[Len(hist)].wid = hist[Len(hist) - 1].wid
    /\ hist[Len(hist)].after = <<>>
    /\ isConnected[hist[Len(hist)].node]


-----------------------------------------------------------------------------
(* What is persisted, under Spec *)

NoWid(list) == \A k \in DOMAIN list : "wid" \notin DOMAIN list[k]

\* C15: no action of any cached list, of any board list in Redis or of any undo stack
\* in Redis carries a wid field.
WidNeverPersisted ==
    /\ \A n \in Nodes, b \in Boards : localCache[n][b] # NoRef => NoWid(heap[n][localCache[n][b]])
    /\ \A k \in Keys : NoWid(store[k])

\* an action drawn in this run, whose content came with a wid, has been undone: once
\* all is handled it is in the undo stack in Redis, and the other node holds the list
WidNeverPersistedWitness ==
    /\ Quiescent
    /\ \E i \in DOMAIN hist, j \in DOMAIN hist :
          /\ i < j
          /\ hist[i].op = "draw" /\ hist[j].op = "undo"
          /\ "wid" \in DOMAIN hist[i].content
          /\ \E k \in DOMAIN store[Key(UNDO_PREFIX, hist[i].wid)] :
                store[Key(UNDO_PREFIX, hist[i].wid)][k] = StripWid(hist[i].content)
          /\ \A n \in Nodes : Held(n, hist[i].wid) # None


-----------------------------------------------------------------------------
(* SpecAdapter: the operations of n1's adapter, next to a second node that   *)
(* publishes, on one Redis.  n2 is connected and initialized; n1 is new, or  *)
(* its connect() failed at the subscriber, or it is connected and            *)
(* initialized.                                                              *)

MaxAdapterOps == 3

InitAdapter ==
    /\ \E a1 \in {NewAdapter, HalfConnectedAdapter, InitializedAdapter} :
          /\ adapter = [n \in Nodes |-> IF n = "n1" THEN a1 ELSE InitializedAdapter]
          /\ isConnected = [n \in Nodes |-> n = "n1" => a1 = InitializedAdapter]
    /\ localCache = [n \in Nodes |-> [b \in Boards |-> NoRef]]
    /\ heap = [n \in Nodes |-> [r \in Refs |-> <<>>]]
    /\ eventHandlers = [n \in Nodes |-> <<>>]
    /\ hs = [n \in Nodes |-> [s \in Slots |-> IdleH]]
    /\ store = SourceOnlyStore
    /\ inbox = [n \in Nodes |-> <<>>]
    /\ ops = 0
    /\ hist = <<>>
    /\ last = [kind |-> "init"]
    /\ kv = [k \in KvKeys |-> Some([text |-> Stringify("v1"), expires |-> TRUE])]
    /\ redisFails = FALSE
    /\ metrics = [n \in Nodes |-> NewMetrics]

ListKey == Key(WHITEBOARD_PREFIX, "b1")
ValueKey == <<"session:", "k1">>

NextAdapter ==
    \/ \E n \in {"n1"} : \E o \in {"connected", "publisherFails", "subscriberFails"} :
          ops < MaxAdapterOps /\ AdapterConnect(n, o)
    \/ \E n \in {"n1"} : \E f \in BOOLEAN :
          ops < MaxAdapterOps /\ AdapterDisconnect(n, f)
    \/ \E n \in Nodes : \E c \in Channels : \E f \in BOOLEAN :
          ops < MaxAdapterOps /\ AdapterPublish(n, c, "m1", f)
    \/ \E n \in {"n1"} : \E c \in Channels : \E h \in HandlerNames : \E f, k \in BOOLEAN :
          ops < MaxAdapterOps /\ AdapterSubscribe(n, c, h, f, k)
    \/ \E n \in {"n1"} : \E c \in Channels : \E f \in BOOLEAN :
          ops < MaxAdapterOps /\ AdapterUnsubscribe(n, c, f)
    \/ \E n \in {"n1"} : \E ttl \in {0, 60} : \E f \in BOOLEAN :
          ops < MaxAdapterOps /\ AdapterSet(n, ValueKey, "v2", ttl, f)
    \/ \E n \in {"n1"} : \E f \in BOOLEAN :
          ops < MaxAdapterOps /\ AdapterGet(n, ValueKey, f)
    \/ \E n \in {"n1"} : \E k \in {ValueKey, ListKey} : \E f \in BOOLEAN :
          ops < MaxAdapterOps /\ AdapterDelete(n, k, f)
    \/ \E n \in {"n1"} : \E pattern \in {"*", WHITEBOARD_PREFIX} : \E f \in BOOLEAN :
          ops < MaxAdapterOps /\ AdapterKeys(n, pattern, f)
    \/ \E n \in {"n1"} : \E f \in BOOLEAN :
          ops < MaxAdapterOps /\ AdapterListPush(n, ListKey, P12, f)
    \/ \E n \in {"n1"} : \E f \in BOOLEAN :
          ops < MaxAdapterOps /\ AdapterListGetAll(n, ListKey, f)
    \/ \E n \in {"n1"} : \E items \in {<<>>, <<P12>>} : \E f \in BOOLEAN :
          /\ ops < MaxAdapterOps
          /\ adapter[n].replacing = <<>>
          /\ AdapterListReplace(n, ListKey, items, f)
    \/ \E n \in {"n1"} : \E f \in BOOLEAN : AdapterListReplacePush(n, 1, f)
    \/ \E k \in KvKeys : KvExpire(k)
    \/ \E n \in Nodes : AdapterDeliver(n)

SpecAdapter == InitAdapter /\ [][NextAdapter]_vars

\* the operations gated by the readiness flag, and what each returns when not ready
GatedOps == {"publish", "subscribe", "unsubscribe", "set", "get", "delete", "keys",
             "listPush", "listGetAll", "listReplace"}

Sentinel(op) ==
    CASE op = "get" -> Null
      [] op = "keys" -> {}
      [] op = "listGetAll" -> <<>>
      [] OTHER -> FALSE

\* C16: an adapter operation called while the readiness flag is false returns its
\* sentinel (false; null for get; the empty array for keys and listGetAll) and leaves
\* Redis, the channel and the adapter's clients and handlers map as they were.
NotReadySentinel ==
    [][\A n \in Nodes :
          (/\ ops' = ops + 1
           /\ last'.kind = "adapter"
           /\ last'.node = n
           /\ last'.op \in GatedOps
           /\ ~isConnected[n])
             => /\ last'.ret = Sentinel(last'.op)
                /\ store' = store
                /\ kv' = kv
                /\ inbox' = inbox
                /\ adapter' = adapter
                /\ isConnected' = isConnected]_vars

\* get was called on an adapter whose flag is false while its publisher client is open
\* and Redis holds a value for the key
NotReadySentinelWitness ==
    /\ last.kind = "adapter"
    /\ last.op = "get"
    /\ ~last.ready
    /\ adapter[last.node].publisher = "open"
    /\ kv[ValueKey] # None


\* C17: a message delivered on a channel is handed to one handler only, the one given
\* by the latest subscribe that succeeded for that channel on the node.
SingleHandlerPerChannel ==
    last.kind = "delivery"
        => /\ Len(last.calls) <= 1
           /\ \A i \in DOMAIN last.calls : last.calls[i] = last.latest


-----------------------------------------------------------------------------
(* SpecFailures: Redis commands fail or succeed from one moment to the next; *)
(* n2's adapter is ready, n1's is not (its connect() failed); commands are   *)
(* handled one at a time.                                                    *)

MaxFailOps == 2

InitFailures == InitWith({RichStore}, {"n2"})

FailCmdsOf(n) ==
    IF n = "n1"
    THEN {Draw("pen", "b1", "u1", "D3"), Cmd("undo", "b1", "u1"), Cmd("redo", "b1", "u1"),
          Cmd("clear", "b1", "u1")}
    ELSE {Draw("pen", "b1", "u2", "D3"), Cmd("undo", "b1", "u2"), Cmd("clear", "b1", "u2")}

\* Redis goes down or comes back
RedisFlips ==
    /\ redisFails' = ~redisFails
    /\ UNCHANGED <<isConnected, localCache, heap, eventHandlers, hs, store, inbox, ops,
                   hist, last, adapter, kv, metrics>>

NextFailures ==
    \/ \E n \in Nodes : \E c \in FailCmdsOf(n) :
          ops < MaxFailOps /\ AllIdle /\ HandleEventsAndData(n, 1, c)
    \/ \E n \in Nodes : ResumeLoad(n, 1)
    \/ \E n \in Nodes : ResumeGetUndoStack(n, 1)
    \/ \E n \in Nodes : ResumeUndoDel(n, 1)
    \/ \E n \in Nodes : ResumeUndoPush(n, 1)
    \/ \E n \in Nodes : ResumeDbDel(n, 1)
    \/ \E n \in Nodes : ResumeDbPush(n, 1)
    \/ \E n \in Nodes : ResumeClearDel1(n, 1)
    \/ \E n \in Nodes : ResumeClearDel2(n, 1)
    \/ \E n \in Nodes : ResumeClearPublished(n, 1)
    \/ \E n \in Nodes : Deliver(n)
    \/ RedisFlips

SpecFailures == InitFailures /\ [][NextFailures]_vars

\* the records of node n in the log
RecordsOf(n) == {i \in DOMAIN hist : hist[i].node = n}

\* the cache of the node shows the mutation of record r
Applied(r) ==
    LET held == Held(r.node, r.wid)
    IN  CASE r.op = "clear" -> held = None
          [] r.op = "draw" -> /\ held # None
                              /\ held[1] # <<>>
                              /\ held[1][Len(held[1])] = StripWid(r.content)
                              /\ SubSeq(held[1], 1, Len(held[1]) - 1) = r.before
          [] r.op = "undo" -> /\ held = Some(UndoCompute(r.before, <<>>, r.user).board)
                              /\ NotOwnedBy(r.before, r.user) = r.before
                                    \/ Len(held[1]) < Len(r.before)
          [] OTHER -> held = Some(r.before)

-----------------------------------------------------------------------------
(* SpecCallbacks: the server registers further callbacks on n1 while n2      *)
(* handles commands on b1 and its events reach n1.                           *)

MaxCallbackOps == 2
MaxCallbacks == 3

CallbackCmds == {Draw("pen", "b1", "u2", "D3"), Cmd("undo", "b1", "u2"), Cmd("clear", "b1", "u2")}

InitCallbacks == InitWith({RichStore}, Nodes)

NextCallbacks ==
    \/ \E c \in CallbackCmds :
          ops < MaxCallbackOps /\ AllIdle /\ HandleEventsAndData("n2", 1, c)
    \/ \E h \in {"cbA", "cbB"} :
          Len(eventHandlers["n1"]) < MaxCallbacks /\ OnRemoteEvent("n1", h)
    \/ \E n \in Nodes : ResumeLoad(n, 1)
    \/ \E n \in Nodes : ResumeGetUndoStack(n, 1)
    \/ \E n \in Nodes : ResumeUndoDel(n, 1)
    \/ \E n \in Nodes : ResumeUndoPush(n, 1)
    \/ \E n \in Nodes : ResumeDbDel(n, 1)
    \/ \E n \in Nodes : ResumeDbPush(n, 1)
    \/ \E n \in Nodes : ResumeClearDel1(n, 1)
    \/ \E n \in Nodes : ResumeClearDel2(n, 1)
    \/ \E n \in Nodes : ResumeClearPublished(n, 1)
    \/ \E n \in Nodes : Deliver(n)

SpecCallbacks == InitCallbacks /\ [][NextCallbacks]_vars

\* the cache entry that an event of another node leaves for its board
EntryAfter(msg) ==
    IF msg.type = "update" /\ "data" \in DOMAIN msg THEN Some(msg.data) ELSE None

\* C19: when an event of another node has been handled, every registered callback was
\* called once, in the order of registration, within that step, and found the cache
\* entry of the event's board already changed.
RemoteCallbacks ==
    (last.kind = "remote" /\ last.msg.nodeId # NodeId(last.node))
        => /\ last.calls = eventHandlers[last.node]
           /\ last.seen = EntryAfter(last.msg)
           /\ last.seen = Held(last.node, last.msg.wid)

\* an update of n2 carrying a list has been handled by n1, which has three callbacks,
\* one of them registered twice; the list differs from what n1 held before
RemoteCallbacksWitness ==
    /\ last.kind = "remote"
    /\ last.node = "n1"
    /\ last.msg.nodeId = NodeId("n2")
    /\ last.msg.type = "update"
    /\ last.seen # None
    /\ last.seen # last.cacheBefore[last.msg.wid]
    /\ Len(last.calls) = 3
    /\ last.calls[2] = last.calls[3]


-----------------------------------------------------------------------------
(* What a redo does to the list and to the stack, under Spec *)

\* the stack entry belongs to the group a redo by username restores: username's
\* entries that carry the drawId of username's most recent entry
InRedoGroup(stack, username, a) ==
    /\ Owner(a) = username
    /\ Get(a, "drawId") = Get(stack[MostRecentOf(stack, username)], "drawId")

Count(seq, x) == Cardinality({k \in DOMAIN seq : seq[k] = x})

\* C20: a redo by U leaves the actions that were on the list where they were and puts
\* after them exactly the stack entries of U that carry the drawId of U's most recent
\* stack entry; the other stack entries stay on the stack, in their order.
RedoAppends ==
    \A i \in DOMAIN hist :
        hist[i].op = "redo" =>
            LET r == hist[i]
                restored == SubSeq(r.after, Len(r.before) + 1, Len(r.after))
            IN  /\ Len(r.after) >= Len(r.before)
                /\ SubSeq(r.after, 1, Len(r.before)) = r.before
                /\ IF NotOwnedBy(r.stackBefore, r.user) = r.stackBefore
                   THEN restored = <<>> /\ r.stackAfter = r.stackBefore
                   ELSE LET group == SelectSeq(r.stackBefore,
                                        LAMBDA a : InRedoGroup(r.stackBefore, r.user, a))
                        IN  /\ \A x \in ToSet(group) \cup ToSet(restored) :
                                   Count(restored, x) = Count(group, x)
                            /\ r.stackAfter = SelectSeq(r.stackBefore,
                                        LAMBDA a : ~InRedoGroup(r.stackBefore, r.user, a))

\* a redo has restored several entries after a non-empty list and left others on the
\* stack
RedoAppendsWitness ==
    \E i \in DOMAIN hist :
        /\ hist[i].op = "redo"
        /\ hist[i].before # <<>>
        /\ Len(hist[i].after) >= Len(hist[i].before) + 2
        /\ hist[i].stackAfter # <<>>

-----------------------------------------------------------------------------
(* SpecReplace: both nodes are initialized and Redis is healthy; each node *)
(* calls listReplace on the action list of b1 with one of two non-empty    *)
(* sequences; the del and the rPush of a call are two commands, and the    *)
(* commands of other calls may be served between them.                     *)

MaxReplaces == 3

ReplaceX == <<P11>>
ReplaceY == <<P21, C22>>

InitReplace == InitWith({EmptyStore, SourceOnlyStore}, Nodes)

NextReplace ==
    \/ \E n \in Nodes : \E items \in {ReplaceX, ReplaceY} :
          /\ ops < 2 * MaxReplaces
          /\ Len(adapter[n].replacing) < 2
          /\ AdapterListReplace(n, ListKey, items, FALSE)
    \/ \E n \in Nodes : \E k \in 1..2 : AdapterListReplacePush(n, k, FALSE)
    \/ \E n \in Nodes :
          /\ ops < 2 * MaxReplaces
          /\ AdapterListGetAll(n, ListKey, FALSE)

SpecReplace == InitReplace /\ [][NextReplace]_vars

NoReplacePending == \A n \in Nodes : adapter[n].replacing = <<>>

\* C21: when listReplace calls on the action list of a board with the non-empty
\* sequences X and Y have interleaved and all of them have completed, the stored
\* list is X or is Y: never empty, never a mix or a concatenation of the two.
LastWriteWins ==
    (/\ last.kind = "adapter"
     /\ last.op = "listReplaceEnd"
     /\ NoReplacePending)
        => store[ListKey] \in {ReplaceX, ReplaceY}

-----------------------------------------------------------------------------
(* The server's callback on remote events, under Spec *)

EmittedTo(room, content) ==
    \E i \in DOMAIN last.emits : last.emits[i] = [room |-> room, content |-> content]

\* C22: for every event handleRemoteEvent accepts from another node for a board, the
\* callback the server registered emits the event's content to the node's clients of
\* the board and to those of the board's read-only mirror id.
RemoteReemit ==
    (/\ last.kind = "remote"
     /\ last.msg.nodeId # NodeId(last.node)
     /\ "content" \in DOMAIN last.msg)
        => /\ EmittedTo(last.msg.wid, last.msg.content)
           /\ EmittedTo(ReadOnlyId(last.msg.wid), last.msg.content)

\* what the callback does emit: the content reaches the node's clients of the board
RemoteReemitBoard ==
    (/\ last.kind = "remote"
     /\ last.msg.nodeId # NodeId(last.node)
     /\ "content" \in DOMAIN last.msg)
        => EmittedTo(last.msg.wid, last.msg.content)

-----------------------------------------------------------------------------
(* SpecBoards: handlers for b1 and for b2 overlap on n1 and with a handler  *)
(* of n2, whose events are delivered to n1 at any later moment.             *)

MaxBoardOps == 2

BoardCmds(n, s) ==
    IF n = "n1" /\ s = 1
    THEN {Cmd("undo", "b1", "u1"), Cmd("clear", "b1", "u1")}
    ELSE IF n = "n1" /\ s = 2
    THEN {Draw("pen", "b2", "u2", "D2")}
    ELSE IF n = "n2" /\ s = 1
    THEN {Cmd("redo", "b1", "u1"), Draw("pen", "b2", "u2", "D3")}
    ELSE {}

InitBoards == InitWith({RichStore}, Nodes)

NextBoards ==
    \/ \E s \in Slots : \E c \in BoardCmds("n1", s) :
          ops < MaxBoardOps /\ HandleEventsAndData("n1", s, c)
    \/ \E c \in BoardCmds("n2", 1) :
          ops < MaxBoardOps /\ AllIdle /\ HandleEventsAndData("n2", 1, c)
    \/ \E n \in Nodes : \E s \in Slots : Resume(n, s)
    \/ Deliver("n1")

SpecBoards == InitBoards /\ [][NextBoards]_vars

\* what a node's cache holds for a board
CacheOf(n, b) == IF localCache[n][b] = NoRef THEN None ELSE Some(heap[n][localCache[n][b]])

\* every board but b keeps its cache entry on every node, its action list and its undo
\* stack in the backing store
OtherBoardsKept(b) ==
    \A o \in Boards \ {b} :
        /\ \A n \in Nodes : CacheOf(n, o)' = CacheOf(n, o)
        /\ store'[Key(WHITEBOARD_PREFIX, o)] = store[Key(WHITEBOARD_PREFIX, o)]
        /\ store'[Key(UNDO_PREFIX, o)] = store[Key(UNDO_PREFIX, o)]

\* C23: every step of a draw, undo, redo or clear for a board, and every delivery of
\* a remote event for a board, leaves the cache entry on every node, the stored action
\* list and the stored undo stack of every other board as they were.
BoardIndependence ==
    [][/\ \A n \in Nodes : \A s \in Slots : \A c \in BoardCmds(n, s) :
              HandleEventsAndData(n, s, c) => OtherBoardsKept(c.wid)
       /\ \A n \in Nodes : \A s \in Slots :
              Resume(n, s) => OtherBoardsKept(hs[n][s].content.wid)
       /\ Deliver("n1") => OtherBoardsKept(Head(inbox["n1"]).wid)]_vars

\* a handler for b2 is in flight on n1 with b2 cached there, while an event of n2 for
\* b1 is about to be delivered to n1
BoardIndependenceWitness ==
    /\ hs["n1"][2].pc # "idle"
    /\ localCache["n1"]["b2"] # NoRef
    /\ inbox["n1"] # <<>>
    /\ Head(inbox["n1"]).wid = "b1"
    /\ Head(inbox["n1"]).nodeId = NodeId("n2")

-----------------------------------------------------------------------------
(* SpecMetrics: the clients of n1 send draw, undo, redo and clear commands  *)
(* for b1 over their sockets, with the right access token or a wrong one;   *)
(* the events n1 publishes are delivered to n2.                             *)

MaxMetricOps == 3

MetricCmds ==
    {Draw("pen", "b1", "u1", "D3"), Cmd("undo", "b1", "u1"), Cmd("redo", "b1", "u1"),
     Cmd("clear", "b1", "u1")}

InitMetrics == InitWith({RichStore}, Nodes)

NextMetrics ==
    \/ \E c \in MetricCmds : \E t \in BOOLEAN :
          ops < MaxMetricOps /\ SocketDrawToWhiteboard("n1", 1, c, t)
    \/ Resume("n1", 1)
    \/ Deliver("n2")

SpecMetrics == InitMetrics /\ [][NextMetrics]_vars

\* the commands of a kind that node n accepted and handled to the end
Accepted(n, kind) ==
    Cardinality({i \in DOMAIN hist : hist[i].node = n /\ hist[i].op = kind})

\* the events node n published (none of them has been delivered back to n)
PublishedBy(n) ==
    Cardinality({i \in DOMAIN inbox[n] : inbox[n][i].nodeId = NodeId(n)})

\* C24: when a node has handled a sequence of accepted commands, its draw, undo, redo
\* and clear counters equal the numbers of accepted commands of these kinds, and its
\* publish counter equals the number of events it published.
CountersCountTheirKind ==
    AllIdle =>
        LET m == metrics["n1"]
        IN  /\ m.totalDrawEvents = Accepted("n1", "draw")
            /\ m.totalUndoEvents = Accepted("n1", "undo")
            /\ m.totalRedoEvents = Accepted("n1", "redo")
            /\ m.totalClearEvents = Accepted("n1", "clear")
            /\ m.redisPublishCount = PublishedBy("n1")

\* what the counters do hold: the draw counter counts every accepted command, of any
\* kind, and the other counters stay at zero
DrawCounterCountsAll ==
    AllIdle =>
        LET m == metrics["n1"]
        IN  /\ m.totalDrawEvents = Accepted("n1", "draw") + Accepted("n1", "undo")
                                     + Accepted("n1", "redo") + Accepted("n1", "clear")
            /\ m.totalUndoEvents = 0
            /\ m.totalRedoEvents = 0
            /\ m.totalClearEvents = 0
            /\ m.redisPublishCount = 0

-----------------------------------------------------------------------------
(* SpecOverlap: n1 has loaded b1; then two handlers for b1 run on n1 and    *)
(* overlap at their awaits: an undo of u1 and a setTextboxText of u2 (both  *)
(* users are clients of n1).                                                *)

MaxOverlapOps == 3

Tx2 == SetText("b1", "u2", "tb2", "y")

OverlapCmds(s) == IF s = 1 THEN {Cmd("undo", "b1", "u1")} ELSE {Tx2}

InitOverlap == InitWith({RichStore}, Nodes)

NextOverlap ==
    \/ ops = 0 /\ LoadCommand("n1", 1, "b1")
    \/ \E s \in Slots : \E c \in OverlapCmds(s) :
          /\ ops < MaxOverlapOps
          /\ localCache["n1"]["b1"] # NoRef
          /\ HandleEventsAndData("n1", s, c)
    \/ \E s \in Slots : ResumeLoad("n1", s)
    \/ \E s \in Slots : ResumeGetUndoStack("n1", s)
    \/ \E s \in Slots : ResumeUndoDel("n1", s)
    \/ \E s \in Slots : ResumeUndoPush("n1", s)
    \/ \E s \in Slots : ResumeDbDel("n1", s)
    \/ \E s \in Slots : ResumeDbPush("n1", s)
    \/ \E n \in Nodes : Deliver(n)

SpecOverlap == InitOverlap /\ [][NextOverlap]_vars

\* the entries an undo took off the list
TakenOff(r) == {r.before[i] : i \in DOMAIN r.before} \ {r.after[i] : i \in DOMAIN r.after}

\* C25: when an undo and a setTextboxText for the same board have overlapped on one
\* node and both have completed, the node's cache reflects both: it holds the textbox
\* action and none of the actions the undo took off.
NoLostUpdate ==
    AllIdle =>
        \A i, j \in DOMAIN hist :
            (hist[i].op = "undo" /\ hist[j].op = "draw") =>
                LET list == CacheOf("n1", "b1")[1]
                IN  /\ \E k \in DOMAIN list : list[k] = StripWid(hist[j].content)
                    /\ \A k \in DOMAIN list : list[k] \notin TakenOff(hist[i])

-----------------------------------------------------------------------------
(* SpecTools: besides draws and clears the clients send a tool that is      *)
(* neither clear, undo, redo nor a drawing tool (a cursor move); n1 and n2  *)
(* handle commands for b1 at the same time, one per node.                   *)

MaxToolOps == 2

ToolCmds(n) ==
    IF n = "n1"
    THEN {Cmd("cursor", "b1", "u1"), Cmd("clear", "b1", "u1")}
    ELSE {Cmd("cursor", "b1", "u2"), Draw("pen", "b1", "u2", "D3")}

InitTools == InitWith({RichStore}, Nodes)

NextTools ==
    \/ \E n \in Nodes : \E c \in ToolCmds(n) :
          ops < MaxToolOps /\ HandleEventsAndData(n, 1, c)
    \/ \E n \in Nodes : ResumeLoad(n, 1)
    \/ \E n \in Nodes : ResumeDbDel(n, 1)
    \/ \E n \in Nodes : ResumeDbPush(n, 1)
    \/ \E n \in Nodes : ResumeClearDel1(n, 1)
    \/ \E n \in Nodes : ResumeClearDel2(n, 1)
    \/ \E n \in Nodes : ResumeClearPublished(n, 1)
    \/ \E n \in Nodes : Deliver(n)

SpecTools == InitTools /\ [][NextTools]_vars

\* the step is node n entering a clear of board b
LocalClear(n, b) ==
    \E c \in ToolCmds(n) : c.t = "clear" /\ c.wid = b /\ HandleEventsAndData(n, 1, c)

\* the step is the delivery to node n of an event of a type for board b, sent by
\* another node
Delivered(n, b, type) ==
    /\ Deliver(n)
    /\ Head(inbox[n]).type = type
    /\ Head(inbox[n]).wid = b
    /\ Head(inbox[n]).nodeId # NodeId(n)

\* C26: on every node a cached board becomes unloaded only through a clear, local or
\* delivered as a clear-typed event; a delivered update-typed event always leaves the
\* board cached with an action sequence.
CacheStateMachine ==
    [][\A n \in Nodes : \A b \in Boards :
          /\ (CacheOf(n, b) # None /\ CacheOf(n, b)' = None)
                => (LocalClear(n, b) \/ Delivered(n, b, "clear"))
          /\ Delivered(n, b, "update") => CacheOf(n, b)' # None]_vars

\* the cache entry of node n, the stored action list and the stored undo stack of
\* board b stay as they are
BoardKept(n, b) ==
    /\ CacheOf(n, b)' = CacheOf(n, b)
    /\ store'[Key(WHITEBOARD_PREFIX, b)] = store[Key(WHITEBOARD_PREFIX, b)]
    /\ store'[Key(UNDO_PREFIX, b)] = store[Key(UNDO_PREFIX, b)]

NonMutating(c) == ~(c.t \in {"clear", "undo", "redo"}) /\ ~IsDrawingTool(c.t)

\* C29: handleEventsAndData with a tool that is neither clear, undo, redo nor a listed
\* drawing tool leaves the node's cache entry, the stored action list and the stored
\* undo stack of the board unchanged, in every step it takes.
NonMutatingTools ==
    [][\A n \in Nodes :
          /\ \A c \in ToolCmds(n) :
                (NonMutating(c) /\ HandleEventsAndData(n, 1, c)) => BoardKept(n, c.wid)
          /\ \A b \in Boards :
                (/\ hs[n][1].pc # "idle"
                 /\ NonMutating(hs[n][1].content)
                 /\ hs[n][1].content.wid = b
                 /\ Resume(n, 1))
                    => BoardKept(n, b)]_vars

\* n2, whose cache holds actions for b1, has just handled a cursor move for b1 and
\* published its update event
NonMutatingToolsWitness ==
    /\ last.kind = "publish"
    /\ last.node = "n2"
    /\ last.msg.tool = "cursor"
    /\ CacheOf("n2", "b1") # None
    /\ CacheOf("n2", "b1") # Some(<<>>)
    /\ store[Key(WHITEBOARD_PREFIX, "b1")] # <<>>

-----------------------------------------------------------------------------
(* The order of the writes and the events of a handler, under SpecSettled *)

\* C27: when a draw, undo or redo publishes its update event, the handler's writes have
\* completed: Redis holds the action list the event carries and, for an undo or redo,
\* the undo stack the handler computed; when a clear publishes its clear event, both
\* keys of the board have been deleted.
PersistBeforePublish ==
    last.kind = "publish" =>
        LET wid == last.msg.wid
            tool == last.content.t
        IN  /\ last.msg.type = "clear"
                  => /\ store[Key(WHITEBOARD_PREFIX, wid)] = <<>>
                     /\ store[Key(UNDO_PREFIX, wid)] = <<>>
            /\ (last.msg.type = "update" /\ last.list # None
                    /\ (IsDrawingTool(tool) \/ tool \in {"undo", "redo"}))
                  => store[Key(WHITEBOARD_PREFIX, wid)] = last.list[1]
            /\ (last.msg.type = "update" /\ tool \in {"undo", "redo"})
                  => store[Key(UNDO_PREFIX, wid)] = hist[Len(hist)].stackAfter

\* an undo that moved actions to the stack has published its update event
PersistBeforePublishWitness ==
    /\ last.kind = "publish"
    /\ last.msg.type = "update"
    /\ last.content.t = "undo"
    /\ hist[Len(hist)].stackAfter # hist[Len(hist)].stackBefore
    /\ last.list # None
    /\ last.list # Some(<<>>)

-----------------------------------------------------------------------------
(* loadStoredData resuming on a cache that was populated meanwhile, under   *)
(* SpecLoad                                                                 *)

\* C28: when loadStoredData of a board resumes from its read of Redis and the node's
\* cache has been populated for the board meanwhile, the load overwrites the cache
\* entry with what it read: the list read when that is non-empty, an empty list when it
\* read nothing.
FirstLoadRace ==
    [][\A n \in Nodes : \A s \in Slots : \A b \in Boards :
          (/\ ResumeLoad(n, s)
           /\ hs[n][s].fn = "loadStoredData"
           /\ hs[n][s].content.wid = b
           /\ CacheOf(n, b) # None)
              => CacheOf(n, b)' = Some(hs[n][s].rd)]_vars

\* a load of b1 on n1 is suspended on its read, which found a non-empty list, and the
\* cache of n1 holds for b1 a different list, put there meanwhile by a remote update
FirstLoadRaceWitness ==
    /\ hs["n1"][1].pc = "load"
    /\ hs["n1"][1].fn = "loadStoredData"
    /\ hs["n1"][1].content.wid = "b1"
    /\ hs["n1"][1].rd # <<>>
    /\ CacheOf("n1", "b1") # None
    /\ CacheOf("n1", "b1") # Some(hs["n1"][1].rd)

\* a load of b1 on n1 is suspended on its read, which found nothing, and the cache of
\* n1 holds a non-empty list for b1, put there meanwhile by a remote update
FirstLoadRaceEmptyRead ==
    /\ hs["n1"][1].pc = "load"
    /\ hs["n1"][1].fn = "loadStoredData"
    /\ hs["n1"][1].content.wid = "b1"
    /\ hs["n1"][1].rd = <<>>
    /\ CacheOf("n1", "b1") # None
    /\ CacheOf("n1", "b1") # Some(<<>>)

-----------------------------------------------------------------------------
(* The cache of n1 and Redis once the handlers of SpecOverlap have          *)
(* returned; n1 is the only node that writes                                *)

\* C30: with a ready adapter, when the mutation handlers for a board on one node,
\* overlapping or not, have all completed and no other node writes the board, the
\* stored action list equals the node's cache entry, no action being stored twice.
CacheStoreAgree ==
    (AllIdle /\ CacheOf("n1", "b1") # None)
        => store[Key(WHITEBOARD_PREFIX, "b1")] = CacheOf("n1", "b1")[1]

-----------------------------------------------------------------------------
(* Undo and redo as moves between the list and the stack, under Spec *)

\* x occurs as often in a \o b as in c \o d
SameCount(a, b, c, d, x) == Count(a, x) + Count(b, x) = Count(c, x) + Count(d, x)

-----------------------------------------------------------------------------
(* SpecRoundTrip: u1, a client of n1, draws, undoes and redoes on b1, one   *)
(* command at a time; n1 is initialized or runs without Redis (local-only). *)

MaxRoundTripOps == 3

\* u2 drew, then u1 drew a stroke of two actions (one drawId)
TailStore ==
    [k \in Keys |-> IF k = Key(WHITEBOARD_PREFIX, "b1") THEN <<P21, P11, L11>> ELSE <<>>]

\* the same after u1 had drawn a rect with that drawId and undone it
TailStoreEarlier ==
    [k \in Keys |->
        IF k = Key(WHITEBOARD_PREFIX, "b1") THEN <<P21, P11, L11>>
        ELSE IF k = Key(UNDO_PREFIX, "b1") THEN <<Q11>>
        ELSE <<>>]

RoundTripCmds ==
    {Draw("pen", "b1", "u1", "D3"), Cmd("undo", "b1", "u1"), Cmd("redo", "b1", "u1")}

InitRoundTrip ==
    \E connected \in {Nodes, {"n2"}} :
        InitWith({RichStore, TailStore, TailStoreEarlier}, connected)

NextRoundTrip ==
    \/ \E c \in RoundTripCmds :
          ops < MaxRoundTripOps /\ AllIdle /\ HandleEventsAndData("n1", 1, c)
    \/ ResumeLoad("n1", 1)
    \/ ResumeGetUndoStack("n1", 1)
    \/ ResumeUndoDel("n1", 1)
    \/ ResumeUndoPush("n1", 1)
    \/ ResumeDbDel("n1", 1)
    \/ ResumeDbPush("n1", 1)
    \/ \E n \in Nodes : Deliver(n)

SpecRoundTrip == InitRoundTrip /\ [][NextRoundTrip]_vars

\* the members of the group the undo logged at i moved, in the order they have in seq
GroupIn(i, seq) == SelectSeq(seq, LAMBDA a : a \in UndoneGroup(i))

\* the group the undo logged at i moved was the tail of the list
WasTail(i) ==
    LET b == hist[i].before
        g == GroupIn(i, b)
    IN  SubSeq(b, Len(b) - Len(g) + 1, Len(b)) = g

\* the redo logged at j comes right after the undo logged at i, which moved a group of
\* several actions
RedoRightAfter(i, j) ==
    /\ RedoFollows(i, j)
    /\ j = i + 1
    /\ hist[j].before = hist[i].after
    /\ Cardinality(UndoneGroup(i)) > 1

-----------------------------------------------------------------------------
(* Undo then redo with and without Redis, under SpecRoundTrip *)

\* the redo logged at j is the next command after the undo logged at i, which moved
\* something, by the same user on the same board and node
RedoNextAfterUndo(i, j) ==
    /\ UndoMoved(i)
    /\ j = i + 1
    /\ hist[j].op = "redo"
    /\ hist[j].wid = hist[i].wid
    /\ hist[j].user = hist[i].user
    /\ hist[j].node = hist[i].node

\* C36: an undo followed by the user's redo on the same node puts the undone actions
\* back on the cached action list, whether the node's adapter is ready or not.
UndoRecoverable ==
    \A i \in DOMAIN hist : \A j \in DOMAIN hist :
        RedoNextAfterUndo(i, j) => UndoneGroup(i) \subseteq ToSet(hist[j].after)

\* the same on a node whose adapter is ready
UndoRecoverableWhenReady ==
    \A i \in DOMAIN hist : \A j \in DOMAIN hist :
        (RedoNextAfterUndo(i, j) /\ isConnected[hist[i].node])
            => UndoneGroup(i) \subseteq ToSet(hist[j].after)

-----------------------------------------------------------------------------
(* SpecNoOp: u1, a client of n1, undoes and redoes on a board where only u2, *)
(* a client of n2, has drawn; commands are handled one at a time.           *)

MaxNoOpOps == 3

\* u2 drew a pen stroke, and a circle that u2 has undone
OthersStore ==
    [k \in Keys |->
        IF k = Key(WHITEBOARD_PREFIX, "b1") THEN <<P21>>
        ELSE IF k = Key(UNDO_PREFIX, "b1") THEN <<C22>>
        ELSE <<>>]

NoOpCmds(n) ==
    IF n = "n1" THEN {Cmd("undo", "b1", "u1"), Cmd("redo", "b1", "u1")}
    ELSE {Draw("pen", "b1", "u2", "D3")}

InitNoOp == InitWith({OthersStore}, Nodes)

NextNoOp ==
    \/ \E n \in Nodes : \E c \in NoOpCmds(n) :
          ops < MaxNoOpOps /\ AllIdle /\ HandleEventsAndData(n, 1, c)
    \/ \E n \in Nodes : ResumeLoad(n, 1)
    \/ ResumeGetUndoStack("n1", 1)
    \/ ResumeUndoDel("n1", 1)
    \/ ResumeUndoPush("n1", 1)
    \/ \E n \in Nodes : ResumeDbDel(n, 1)
    \/ \E n \in Nodes : ResumeDbPush(n, 1)
    \/ \E n \in Nodes : Deliver(n)

SpecNoOp == InitNoOp /\ [][NextNoOp]_vars

\* the undo or redo logged at i found nothing of its user to move
NothingToDo(i) ==
    \/ hist[i].op = "undo" /\ \A a \in ToSet(hist[i].before) : Owner(a) # hist[i].user
    \/ hist[i].op = "redo" /\ \A a \in ToSet(hist[i].stackBefore) : Owner(a) # hist[i].user

\* the stored list of b1 when the handler logged at i was called: the list the handler
\* before it persisted (handlers run one at a time), or the initial list
StoredWhenCalled(i) ==
    IF i = 1 THEN OthersStore[Key(WHITEBOARD_PREFIX, "b1")] ELSE hist[i - 1].after

\* C33: an undo of a user who owns no action on the list, and a redo of a user who
\* owns no entry on the stack, leave the list and the stack as they were, in the cache
\* (the handler's result) and, once the handler has completed, in the store.
NothingToDoKeepsAll ==
    \A i \in DOMAIN hist :
        NothingToDo(i)
            => /\ hist[i].after = hist[i].before
               /\ hist[i].stackAfter = hist[i].stackBefore
               /\ (i = Len(hist) /\ AllIdle)
                     => /\ store[Key(UNDO_PREFIX, hist[i].wid)] = hist[i].stackBefore
                        /\ store[Key(WHITEBOARD_PREFIX, hist[i].wid)] = StoredWhenCalled(i)

-----------------------------------------------------------------------------
(* SpecClearRace: on n1 a clear of b1 runs on one handler slot while a load, *)
(* a draw, an undo or a redo of b1 runs on the other.                        *)

MaxClearOps == 2

ClearRaceCmds(s) ==
    IF s = 1
    THEN {Draw("pen", "b1", "u1", "D3"), Cmd("undo", "b1", "u1"), Cmd("redo", "b1", "u1")}
    ELSE {Cmd("clear", "b1", "u2")}

InitClearRace == InitWith({RichStore}, Nodes)

NextClearRace ==
    \/ \E s \in Slots : \E c \in ClearRaceCmds(s) :
          ops < MaxClearOps /\ HandleEventsAndData("n1", s, c)
    \/ ops < MaxClearOps /\ LoadCommand("n1", 1, "b1")
    \/ ResumeLoad("n1", 1)
    \/ ResumeGetUndoStack("n1", 1)
    \/ ResumeUndoDel("n1", 1)
    \/ ResumeUndoPush("n1", 1)
    \/ ResumeDbDel("n1", 1)
    \/ ResumeDbPush("n1", 1)
    \/ ResumeClearDel1("n1", 2)
    \/ ResumeClearDel2("n1", 2)
    \/ ResumeClearPublished("n1", 2)
    \/ \E n \in Nodes : Deliver(n)

SpecClearRace == InitClearRace /\ [][NextClearRace]_vars

\* the actions b1 held before the clear logged at i: those stored at the start or
\* drawn before the clear, less those drawn again after it
BeforeClear(i) ==
    (ToSet(RichStore[Key(WHITEBOARD_PREFIX, "b1")])
        \cup {StripWid(hist[j].content) : j \in {k \in 1..(i - 1) : hist[k].op = "draw"}})
    \ {StripWid(hist[j].content) : j \in {k \in (i + 1)..Len(hist) : hist[k].op = "draw"}}

\* C34: once a clear of b1 and every handler of n1 that overlapped it have completed,
\* no action that b1 held before the clear is in n1's cached list or in the stored list.
ClearNotUndone ==
    \A i \in DOMAIN hist :
        (hist[i].op = "clear" /\ AllIdle)
            => \A a \in BeforeClear(i) :
                  /\ CacheOf("n1", "b1") = None \/ a \notin ToSet(CacheOf("n1", "b1")[1])
                  /\ a \notin ToSet(store[Key(WHITEBOARD_PREFIX, "b1")])

-----------------------------------------------------------------------------
(* SpecCopySeen: n2 copies b1 to b2 while n1 loads b2 and draws on it, one  *)
(* command at a time.                                                        *)

MaxCopySeenOps == 4

NextCopySeen ==
    \/ ops < MaxCopySeenOps /\ Quiescent /\ CopyCommand("n2", 1, "b1", "b2")
    \/ ops < MaxCopySeenOps /\ Quiescent /\ LoadCommand("n1", 1, "b2")
    \/ /\ ops < MaxCopySeenOps
       /\ Quiescent
       /\ HandleEventsAndData("n1", 1, Draw("pen", "b2", "u1", "D3"))
    \/ \E n \in Nodes : ResumeLoad(n, 1)
    \/ \E n \in Nodes : ResumeDbDel(n, 1)
    \/ \E n \in Nodes : ResumeDbPush(n, 1)
    \/ \E n \in Nodes : Deliver(n)

SpecCopySeen == InitCopy /\ [][NextCopySeen]_vars

\* the copyStoredData call logged at i copied a non-empty source list to its target
Copied(i) ==
    /\ hist[i].op = "copy"
    /\ hist[i].source # <<>>
    /\ hist[i].before = <<>>
    /\ hist[i].after = hist[i].source

\* the record logged at j is the next one after the copy logged at i, by another node,
\* on the copy's target
NextOnTarget(i, j) ==
    /\ j = i + 1
    /\ hist[j].node # hist[i].node
    /\ hist[j].wid = hist[i].wid

\* C35: after a copy of a non-empty list, a load of the target on another node returns
\* the copied list, and once a draw on the target from another node has completed the
\* stored list of the target still holds the copied actions.
CopyVisible ==
    \A i \in DOMAIN hist : \A j \in DOMAIN hist :
        (Copied(i) /\ NextOnTarget(i, j))
            => /\ hist[j].op = "load" => hist[j].after = hist[i].after
               /\ (hist[j].op = "draw" /\ j = Len(hist) /\ AllIdle)
                     => ToSet(hist[i].after)
                            \subseteq ToSet(store[Key(WHITEBOARD_PREFIX, hist[i].wid)])

\* the same for another node that had not cached the target before the copy
CopyVisibleUncached ==
    \A i \in DOMAIN hist : \A j \in DOMAIN hist :
        (Copied(i) /\ NextOnTarget(i, j)
            /\ \A k \in 1..(i - 1) : hist[k].node # hist[j].node \/ hist[k].wid # hist[i].wid)
            => /\ hist[j].op = "load" => hist[j].after = hist[i].after
               /\ (hist[j].op = "draw" /\ j = Len(hist) /\ AllIdle)
                     => ToSet(hist[i].after)
                            \subseteq ToSet(store[Key(WHITEBOARD_PREFIX, hist[i].wid)])

-----------------------------------------------------------------------------
(* SpecJoined: the clients of n1 have joined b1, its read-only id or no      *)
(* board, and send commands whose wid field names b1 or b2.                  *)

MaxJoinedOps == 2

\* whiteboardId of the sockets: no board, b1, the read-only id of b1
JoinedIds == {"", "b1", ReadOnlyId("b1")}

JoinedCmds ==
    {Draw("pen", "b1", "u1", "D3"), Draw("pen", "b2", "u1", "D3"), Cmd("undo", "b1", "u1"),
     Cmd("clear", "b2", "u1")}

InitJoined == InitWith({RichStore}, Nodes)

NextJoined ==
    \/ \E x \in JoinedIds : \E c \in JoinedCmds : \E t \in BOOLEAN :
          ops < MaxJoinedOps /\ AllIdle /\ SocketDrawOnBoard("n1", 1, x, c, t)
    \/ Resume("n1", 1)
    \/ Deliver("n2")

SpecJoined == InitJoined /\ [][NextJoined]_vars

\* the board is as at the start in Redis, and was never cached nor named by a record
Untouched(b) ==
    /\ store[Key(WHITEBOARD_PREFIX, b)] = RichStore[Key(WHITEBOARD_PREFIX, b)]
    /\ store[Key(UNDO_PREFIX, b)] = RichStore[Key(UNDO_PREFIX, b)]
    /\ \A n \in Nodes : CacheOf(n, b) = None
    /\ \A i \in DOMAIN hist : hist[i].wid # b

\* C37: a command received on a socket changes only the board the socket joined, the
\* one whose rooms get the broadcast (here b1, so b2 stays untouched), and a command on
\* a socket that joined no board or a read-only id changes nothing.
JoinedBoardOnly ==
    /\ []Untouched("b2")
    /\ [][\A x \in JoinedIds : \A c \in JoinedCmds : \A t \in BOOLEAN :
             SocketDrawOnBoard("n1", 1, x, c, t)
                 => /\ (x \notin Boards)
                        => UNCHANGED <<localCache, heap, store, inbox, hist, metrics>>
                    /\ (x \in Boards) => x \in BroadcastRooms(x) /\ OtherBoardsKept(x)]_vars

\* the part about sockets that joined no board or a read-only id
NotJoinedIgnored ==
    [][\A x \in JoinedIds \ Boards : \A c \in JoinedCmds : \A t \in BOOLEAN :
          SocketDrawOnBoard("n1", 1, x, c, t)
              => UNCHANGED <<localCache, heap, store, inbox, hist, metrics>>]_vars

\* the part about sockets that joined b1, for commands whose wid field is b1
JoinedOwnBoard ==
    [][\A c \in {d \in JoinedCmds : d.wid = "b1"} : \A t \in BOOLEAN :
          SocketDrawOnBoard("n1", 1, "b1", c, t) => OtherBoardsKept("b1")]_vars

-----------------------------------------------------------------------------
(* SpecDelivery: distributed mode; client a1 of n1 sends commands for b1,   *)
(* which clients c1 (on n1) and c2 (on n2) have joined too.  The socket     *)
(* adapter is shared: an emit to a room reaches the room's clients on every *)
(* node.                                                                     *)

MaxDeliveryOps == 2

Clients == {"a1", "c1", "c2"}
Sender == "a1"
SenderBoard == "b1"

\* socket.join(whiteboardId) of each client
RoomOf(k) == "b1"

ClientsIn(room) == {k \in Clients : RoomOf(k) = room}

\* socket.broadcast.to(room).emit: the clients of the room but the sending socket
SocketBroadcast(sender, room) == ClientsIn(room) \ {sender}

\* io.to(room).emit: the clients of the room
IoEmit(room) == ClientsIn(room)

DeliveryCmds == {Draw("pen", "b1", "u1", "D3"), Cmd("undo", "b1", "u1")}

NextDelivery ==
    \/ \E c \in DeliveryCmds : \E t \in BOOLEAN :
          ops < MaxDeliveryOps /\ AllIdle /\ SocketDrawOnBoard("n1", 1, SenderBoard, c, t)
    \/ ResumeLoad("n1", 1)
    \/ ResumeGetUndoStack("n1", 1)
    \/ ResumeUndoDel("n1", 1)
    \/ ResumeUndoPush("n1", 1)
    \/ ResumeDbDel("n1", 1)
    \/ ResumeDbPush("n1", 1)
    \/ \E n \in Nodes : Deliver(n)

SpecDelivery == InitJoined /\ [][NextDelivery]_vars

\* the clients that got the command from the handler of the sender's socket
GotBroadcast(room) ==
    IF room \in BroadcastRooms(SenderBoard) THEN SocketBroadcast(Sender, room) ELSE {}

\* C38: a command accepted from a client reaches every other client of the board at
\* most once and never its sender: the remote-event callback emits it to no client that
\* got it from the socket broadcast, nor to the sender.
AtMostOnce ==
    [][\A n \in Nodes :
          Deliver(n)
              => \A x \in DOMAIN last'.emits :
                    \A k \in IoEmit(last'.emits[x].room) :
                        k # Sender /\ k \notin GotBroadcast(last'.emits[x].room)]_vars

\* the node that accepted the command emits nothing when its own event comes back
OriginSilent ==
    [][Deliver("n1") => last'.emits = <<>>]_vars

-----------------------------------------------------------------------------
(* SpecConnections: connectionOpened and connectionClosed are called on the *)
(* metrics of each node in any order.                                       *)

MaxConnCalls == 4

CallConnectionOpened(n) ==
    /\ metrics[n].totalConnections < MaxConnCalls
    /\ metrics' = [metrics EXCEPT ![n] = ConnectionOpened(@)]
    /\ last' = [kind |-> "connectionOpened", node |-> n]
    /\ UNCHANGED <<isConnected, localCache, heap, eventHandlers, hs, store, inbox, ops,
                   hist, adapter, kv, redisFails>>

CallConnectionClosed(n) ==
    /\ metrics[n].totalDisconnections < MaxConnCalls
    /\ metrics' = [metrics EXCEPT ![n] = ConnectionClosed(@)]
    /\ last' = [kind |-> "connectionClosed", node |-> n]
    /\ UNCHANGED <<isConnected, localCache, heap, eventHandlers, hs, store, inbox, ops,
                   hist, adapter, kv, redisFails>>

NextConnections ==
    \/ \E n \in Nodes : CallConnectionOpened(n)
    \/ \E n \in Nodes : CallConnectionClosed(n)

SpecConnections == InitMetrics /\ [][NextConnections]_vars

GaugeInRange(m) == 0 <= m.activeConnections /\ m.activeConnections <= m.totalConnections

\* C39: after any sequence of connectionOpened and connectionClosed calls the gauge
\* activeConnections is not negative and not above totalConnections, and no call makes
\* totalConnections or totalDisconnections smaller.
ConnectionGauge ==
    /\ [](\A n \in Nodes : GaugeInRange(metrics[n]))
    /\ [][\A n \in Nodes :
             /\ metrics'[n].totalConnections >= metrics[n].totalConnections
             /\ metrics'[n].totalDisconnections >= metrics[n].totalDisconnections]_vars

\* connectionClosed has been called on n1 more often than connectionOpened, the last
\* call finding the gauge at zero, while n2 has open connections left after a close
ConnectionGaugeWitness ==
    /\ last.kind = "connectionClosed"
    /\ last.node = "n1"
    /\ metrics["n1"].totalConnections > 0
    /\ metrics["n1"].totalDisconnections > metrics["n1"].totalConnections + 1
    /\ metrics["n2"].totalDisconnections > 0
    /\ metrics["n2"].activeConnections > 0

====
